---------------------------- MODULE Spec2Model ----------------------------
(***************************************************************************)
(* A model of the photo-collage client: the SlotManager (both versions     *)
(* kept in components/three/patterns/FloatPattern.tsx) and the photo list   *)
(* of the collage store (store/collageStore.ts).                            *)
(***************************************************************************)
EXTENDS Integers, Sequences, FiniteSets, TLC

(***************************************************************************)
(* Bounds of the model.                                                    *)
(***************************************************************************)
\* Largest slot count given to the constructor or to updateSlotCount.
MaxSlots == 4
\* Longest photo list passed to assignSlots.
MaxLen == 3
\* Most re-checks of one photo id that are pending at a time.
MaxPending == 1
\* Most channels subscribed, and most interval timers running, at a time.
MaxChannels == 2

(***************************************************************************)
(* Photos.  An id is an opaque string; localeCompare on the ids used here   *)
(* is their alphabetical order.  created_at is the creation time in         *)
(* milliseconds (what new Date(created_at).getTime() returns); 0 stands for *)
(* a missing or empty created_at, which is falsy in the comparator.         *)
(***************************************************************************)
PhotoIds == {"A", "B", "C", "D"}

IdRank(id) == CASE id = "A" -> 1 [] id = "B" -> 2 [] id = "C" -> 3
                [] id = "D" -> 4 [] OTHER -> 0

\* a.localeCompare(b)
localeCompare(a, b) == IdRank(a) - IdRank(b)

\* The creation times the photo rows can carry: strictly increasing in
\* upload order, or with two rows of the same millisecond (A and C) and a
\* row without a created_at (B).
UploadOrder == [id \in PhotoIds |-> IdRank(id)]

TimestampTables ==
  { UploadOrder,
    [id \in PhotoIds |-> CASE id = "A" -> 1 [] id = "B" -> 0
                           [] id = "C" -> 1 [] OTHER -> 2] }

\* An entry of the list that `p && p.id` rejects (null, or a row without id).
NullPhoto == [id |-> "", created_at |-> 0]

VARIABLES
  variant,          \* which version of the SlotManager class is running (1 or 2)
  createdAt,        \* created_at of each photo row
  totalSlots,       \* SlotManager.totalSlots (maxSlots in the second version)
  slotAssignments,  \* SlotManager.slotAssignments : photo id -> slot index
  occupiedSlots,    \* SlotManager.occupiedSlots
  availableSlots,   \* SlotManager.availableSlots
  deletedSlots,     \* SlotManager.deletedSlots (first version only)
  lastCall,         \* the last call made on the manager and what it was given
  statePhotos,      \* the store's photos: the list of photo rows of the open collage
  lastRefreshTime,  \* the store's lastRefreshTime
  recheckTimers,    \* per photo id, the pending re-checks a DELETE event has scheduled
  lastEvent,        \* the last mutation applied to the store and what it was given
  currentCollage,   \* the store's currentCollage (its id, or NoCollage for null)
  loading,          \* the store's loading flag
  error,            \* the store's error field (NoError for null)
  collages,         \* the store's collages: the list of collage ids
  realtimeChannel,  \* the store's realtimeChannel (a channel name, or 0 for null)
  isRealtimeConnected, \* the store's isRealtimeConnected flag
  pollingInterval,  \* the store's pollingInterval (a timer name, or 0 for null)
  channels,         \* the change-feed channels that are subscribed, by name
  intervals,        \* the interval timers that are running, by name
  view,             \* the page that is mounted and the timers it has pending
  serverRows,       \* the server's photos table: what became of each photo id
  pendingEvents,    \* the change-feed events the server has sent and not yet delivered
  tasks,            \* the asynchronous store operations in flight
  lastResult,       \* how the last asynchronous operation that ended has ended
  settings,         \* currentCollage.settings: the settings document the store holds
  savedSettings,    \* the settings document the server holds for the collage
  settingsCalls,    \* the updateCollageSettings calls in flight
  basePositionsCache, \* FloatPattern.basePositionsCache
  maxSlotsGenerated,  \* FloatPattern.maxSlotsGenerated
  lastFrame,        \* the last generatePositions call and what it returned
  insertCode        \* the code of createCollage's insert request (NoCode outside the call)

slotVars == <<variant, createdAt, totalSlots, slotAssignments, occupiedSlots,
              availableSlots, deletedSlots, lastCall>>

storeVars == <<statePhotos, lastRefreshTime, recheckTimers, lastEvent>>

collageVars == <<currentCollage, loading, error, collages, realtimeChannel,
                 isRealtimeConnected, pollingInterval>>

envVars == <<channels, intervals, view, serverRows, pendingEvents, tasks, lastResult>>

settingsVars == <<settings, savedSettings, settingsCalls>>

patternVars == <<basePositionsCache, maxSlotsGenerated, lastFrame>>

engineVars == <<collageVars, envVars, settingsVars, patternVars, insertCode>>

vars == <<slotVars, storeVars, engineVars>>

(***************************************************************************)
(* Sequence helpers.                                                       *)
(***************************************************************************)
SeqsUpTo(S, n) == UNION { [1..k -> S] : k \in 0..n }

Range(s) == { s[i] : i \in 1..Len(s) }

Contains(s, x) == \E i \in 1..Len(s) : s[i] = x

\* Array.prototype.sort((a, b) => a - b) on numbers: ascending order.
RECURSIVE InsertNum(_, _)
InsertNum(s, x) ==
  IF s = <<>> THEN <<x>>
  ELSE IF x < Head(s) THEN <<x>> \o s
  ELSE <<Head(s)>> \o InsertNum(Tail(s), x)

RECURSIVE SortNum(_)
SortNum(s) == IF s = <<>> THEN <<>> ELSE InsertNum(SortNum(Tail(s)), Head(s))

\* The ascending sequence of the members of a set of numbers.
RECURSIVE Ascending(_)
Ascending(S) ==
  IF S = {} THEN <<>>
  ELSE LET m == CHOOSE x \in S : \A y \in S : x <= y
       IN <<m>> \o Ascending(S \ {m})

\* array.splice(array.indexOf(x), 1) when x is in the array.
RECURSIVE RemoveFirst(_, _)
RemoveFirst(s, x) ==
  IF s = <<>> THEN <<>>
  ELSE IF Head(s) = x THEN Tail(s)
  ELSE <<Head(s)>> \o RemoveFirst(Tail(s), x)

\* The rearrangements of the positions 1..n, for every list length.
Rearrangements ==
  [ n \in 0..MaxLen |->
      { f \in [1..n -> 1..n] : \A i, j \in 1..n : f[i] = f[j] => i = j } ]

PermutationsOf(s) ==
  { [i \in 1..Len(s) |-> s[f[i]]] : f \in Rearrangements[Len(s)] }

(***************************************************************************)
(* The manager as a value.                                                 *)
(***************************************************************************)
Manager ==
  [ totalSlots |-> totalSlots, slotAssignments |-> slotAssignments,
    occupiedSlots |-> occupiedSlots, availableSlots |-> availableSlots,
    deletedSlots |-> deletedSlots ]

\* The field initialisers of the class, before the constructor body runs.
EmptyManager ==
  [ totalSlots |-> 0, slotAssignments |-> <<>>, occupiedSlots |-> {},
    availableSlots |-> <<>>, deletedSlots |-> <<>> ]

\* Map.delete for every key in a set.
DeleteKeys(map, keys) == [ p \in (DOMAIN map) \ keys |-> map[p] ]

\* Map.set
SetKey(map, key, value) ==
  [ p \in (DOMAIN map) \cup {key} |-> IF p = key THEN value ELSE map[p] ]

(***************************************************************************)
(* SlotManager, first version.                                              *)
(***************************************************************************)
\* Mutant: the range test is off by one.
OutOfRange_OffByOne(slotIndex, newTotal) == slotIndex > newTotal

\* The slotIndex >= newTotal test of the loop that drops out-of-range
\* assignments in updateSlotCount.
OutOfRange(slotIndex, newTotal) == slotIndex >= newTotal

\* Mutant: the slots that were never used come first and the list is not
\* sorted.
rebuildAvailableSlots_NewFirst(m) ==
  LET fromDeleted ==
        SelectSeq(m.deletedSlots,
                  LAMBDA slot : slot < m.totalSlots /\ slot \notin m.occupiedSlots)
      others ==
        Ascending({ i \in 0..(m.totalSlots - 1) :
                      i \notin m.occupiedSlots /\ ~Contains(fromDeleted, i) })
  IN [m EXCEPT !.availableSlots = others \o fromDeleted,
               !.deletedSlots = <<>>]

rebuildAvailableSlots(m) ==
  LET fromDeleted ==
        SelectSeq(m.deletedSlots,
                  LAMBDA slot : slot < m.totalSlots /\ slot \notin m.occupiedSlots)
      others ==
        Ascending({ i \in 0..(m.totalSlots - 1) :
                      i \notin m.occupiedSlots /\ ~Contains(fromDeleted, i) })
  IN [m EXCEPT !.availableSlots = SortNum(fromDeleted \o others),
               !.deletedSlots = <<>>]

\* Mutant: a changed count empties the assignment map.
updateSlotCount_ClearsAll(m, newTotal) ==
  IF newTotal = m.totalSlots THEN m
  ELSE rebuildAvailableSlots(
         [m EXCEPT !.totalSlots = newTotal, !.slotAssignments = <<>>,
                   !.occupiedSlots = {}])

updateSlotCount(m, newTotal) ==
  IF newTotal = m.totalSlots THEN m
  ELSE LET gone == { p \in DOMAIN m.slotAssignments :
                       OutOfRange(m.slotAssignments[p], newTotal) }
       IN rebuildAvailableSlots(
            [m EXCEPT !.totalSlots = newTotal,
                      !.slotAssignments = DeleteKeys(m.slotAssignments, gone),
                      !.occupiedSlots =
                         m.occupiedSlots \ { m.slotAssignments[p] : p \in gone }])

\* photos.filter(p => p && p.id)
safePhotos(photos) == SelectSeq(photos, LAMBDA p : p.id # "")

currentPhotoIds(photos) == { p.id : p \in Range(safePhotos(photos)) }

\* The comparator handed to sort() in assignSlots.
comparePhotos(a, b) ==
  IF a.created_at # 0 /\ b.created_at # 0
  THEN a.created_at - b.created_at
  ELSE localeCompare(a.id, b.id)

\* Whether the comparator orders a set of rows consistently (a strict weak
\* ordering); only then does the language fix sort()'s result.
ConsistentOn(S) ==
  \A a, b, c \in S :
     /\ (comparePhotos(a, b) < 0 /\ comparePhotos(b, c) < 0) => comparePhotos(a, c) < 0
     /\ (comparePhotos(a, b) = 0 /\ comparePhotos(b, c) = 0) => comparePhotos(a, c) = 0
     /\ (comparePhotos(a, b) < 0) <=> (comparePhotos(b, a) > 0)

AllPhotoRows ==
  { [id |-> i, created_at |-> t[i]] : i \in PhotoIds, t \in TimestampTables }

ConsistentSets == { S \in SUBSET AllPhotoRows : ConsistentOn(S) }

ConsistentComparator(s) == Range(s) \in ConsistentSets

\* Stable insertion of x behind every element that does not sort after it.
RECURSIVE InsertPhoto(_, _)
InsertPhoto(s, x) ==
  IF s = <<>> THEN <<x>>
  ELSE IF comparePhotos(Head(s), x) > 0 THEN <<x>> \o s
  ELSE <<Head(s)>> \o InsertPhoto(Tail(s), x)

RECURSIVE StableSort(_)
StableSort(s) ==
  IF s = <<>> THEN <<>>
  ELSE InsertPhoto(StableSort(SubSeq(s, 1, Len(s) - 1)), s[Len(s)])

\* The results [...safePhotos].sort(comparator) can have: the stable sort
\* when the comparator is consistent, an implementation-defined order of the
\* same elements when it is not.
sortResults(photos) ==
  LET safe == safePhotos(photos)
  IN IF ConsistentComparator(safe) THEN { StableSort(safe) }
     ELSE PermutationsOf(safe)

\* Every list assignSlots is given, under every table of timestamps.
AllPhotoLists ==
  { [i \in DOMAIN l |-> IF l[i] = "" THEN NullPhoto
                        ELSE [id |-> l[i], created_at |-> t[l[i]]]] :
      l \in SeqsUpTo(PhotoIds \cup {""}, MaxLen), t \in TimestampTables }

\* sortResults, computed once for each list.
SortTable == [photos \in AllPhotoLists |-> sortResults(photos)]

sortedPhotos(photos) == SortTable[photos]

\* Mutant: the loop stops while one slot is still available.
RECURSIVE assignNew_KeepsOneFree(_, _)
assignNew_KeepsOneFree(m, list) ==
  IF list = <<>> THEN m
  ELSE LET photo == Head(list)
       IN IF photo.id \notin DOMAIN m.slotAssignments /\ Len(m.availableSlots) > 1
          THEN LET newSlot == Head(m.availableSlots)
               IN assignNew_KeepsOneFree(
                    [m EXCEPT !.availableSlots = Tail(m.availableSlots),
                              !.slotAssignments = SetKey(m.slotAssignments, photo.id, newSlot),
                              !.occupiedSlots = m.occupiedSlots \cup {newSlot}],
                    Tail(list))
          ELSE assignNew_KeepsOneFree(m, Tail(list))

\* Mutant: the loop does not skip the photos that have an assignment.
RECURSIVE assignNew_NoHasCheck(_, _)
assignNew_NoHasCheck(m, list) ==
  IF list = <<>> THEN m
  ELSE LET photo == Head(list)
       IN IF Len(m.availableSlots) > 0
          THEN LET newSlot == Head(m.availableSlots)
               IN assignNew_NoHasCheck(
                    [m EXCEPT !.availableSlots = Tail(m.availableSlots),
                              !.slotAssignments = SetKey(m.slotAssignments, photo.id, newSlot),
                              !.occupiedSlots = m.occupiedSlots \cup {newSlot}],
                    Tail(list))
          ELSE assignNew_NoHasCheck(m, Tail(list))

\* The loop that gives the photos without an assignment the next available
\* slots, in the order of the list it walks.
RECURSIVE assignNew(_, _)
assignNew(m, list) ==
  IF list = <<>> THEN m
  ELSE LET photo == Head(list)
       IN IF photo.id \notin DOMAIN m.slotAssignments /\ Len(m.availableSlots) > 0
          THEN LET newSlot == Head(m.availableSlots)
               IN assignNew(
                    [m EXCEPT !.availableSlots = Tail(m.availableSlots),
                              !.slotAssignments = SetKey(m.slotAssignments, photo.id, newSlot),
                              !.occupiedSlots = m.occupiedSlots \cup {newSlot}],
                    Tail(list))
          ELSE assignNew(m, Tail(list))

\* Mutant: the slots of removed photos are not made available again.
removeMissing_NoRebuild(m, photos) ==
  LET removedPhotoIds == (DOMAIN m.slotAssignments) \ currentPhotoIds(photos)
      freed == Ascending({ m.slotAssignments[p] : p \in removedPhotoIds })
  IN [m EXCEPT !.deletedSlots = m.deletedSlots \o freed,
               !.slotAssignments = DeleteKeys(m.slotAssignments, removedPhotoIds),
               !.occupiedSlots = m.occupiedSlots \ Range(freed)]

\* Mutant: every call starts from an empty assignment map.
removeMissing_Reassign(m, photos) ==
  rebuildAvailableSlots([m EXCEPT !.slotAssignments = <<>>, !.occupiedSlots = {}])

\* assignSlots up to the sort: the assignments of photos no longer in the
\* list are removed and their slots made available again.  The order in
\* which the removed slots enter deletedSlots is the Map's iteration order,
\* which rebuildAvailableSlots' final sort erases.
removeMissing(m, photos) ==
  LET removedPhotoIds == (DOMAIN m.slotAssignments) \ currentPhotoIds(photos)
      freed == Ascending({ m.slotAssignments[p] : p \in removedPhotoIds })
      m1 == [m EXCEPT !.deletedSlots = m.deletedSlots \o freed,
                      !.slotAssignments = DeleteKeys(m.slotAssignments, removedPhotoIds),
                      !.occupiedSlots = m.occupiedSlots \ Range(freed)]
  IN IF removedPhotoIds # {} THEN rebuildAvailableSlots(m1) ELSE m1

\* The managers assignSlots(photos) can leave: one for each result sort()
\* can have.
assignSlots(m, photos) ==
  LET cleared == removeMissing(m, photos)
  IN { assignNew(cleared, sorted) : sorted \in sortedPhotos(photos) }

(***************************************************************************)
(* SlotManager, second version (totalSlots stands for its maxSlots).        *)
(***************************************************************************)
\* Mutant: every index below the count is listed, occupied or not.
rebuildAvailableSlots2_IgnoresOccupied(m) ==
  [m EXCEPT !.availableSlots = SortNum(Ascending(0..(m.totalSlots - 1)))]

rebuildAvailableSlots2(m) ==
  [m EXCEPT !.availableSlots =
      SortNum(Ascending({ i \in 0..(m.totalSlots - 1) : i \notin m.occupiedSlots }))]

updateSlotCount2(m, newTotal) ==
  LET m1 == rebuildAvailableSlots2([m EXCEPT !.totalSlots = newTotal])
      gone == { p \in DOMAIN m1.slotAssignments :
                  OutOfRange(m1.slotAssignments[p], newTotal) }
  IN rebuildAvailableSlots2(
       [m1 EXCEPT !.slotAssignments = DeleteKeys(m1.slotAssignments, gone),
                  !.occupiedSlots =
                     m1.occupiedSlots \ { m1.slotAssignments[p] : p \in gone }])

\* findAvailableSlot: the slot it returns and the manager it leaves.
findAvailableSlot(m) ==
  IF Len(m.availableSlots) > 0
  THEN [slot |-> Head(m.availableSlots),
        m |-> [m EXCEPT !.availableSlots = Tail(m.availableSlots)]]
  ELSE [slot |-> m.totalSlots, m |-> m]

\* The loop over the assignments that clears the slots of deleted photos;
\* each cleared slot is pushed on availableSlots, which is sorted again.
RECURSIVE clearDeleted(_, _)
clearDeleted(m, ids) ==
  IF ids = {} THEN m
  ELSE LET photoId == CHOOSE p \in ids : \A q \in ids : IdRank(p) <= IdRank(q)
           slotIndex == m.slotAssignments[photoId]
       IN clearDeleted(
            [m EXCEPT !.slotAssignments = DeleteKeys(m.slotAssignments, {photoId}),
                      !.occupiedSlots = m.occupiedSlots \ {slotIndex},
                      !.availableSlots = SortNum(Append(m.availableSlots, slotIndex))],
            ids \ {photoId})

\* The loop that keeps the assignments of the photos still in the list.
RECURSIVE preserveExisting(_, _)
preserveExisting(m, list) ==
  IF list = <<>> THEN m
  ELSE LET photo == Head(list)
       IN IF photo.id \in DOMAIN m.slotAssignments
          THEN LET slotIndex == m.slotAssignments[photo.id]
               IN preserveExisting(
                    [m EXCEPT !.occupiedSlots = m.occupiedSlots \cup {slotIndex},
                              !.availableSlots =
                                 IF Contains(m.availableSlots, slotIndex)
                                 THEN RemoveFirst(m.availableSlots, slotIndex)
                                 ELSE m.availableSlots],
                    Tail(list))
          ELSE preserveExisting(m, Tail(list))

\* The loop that assigns the photos without an assignment, in list order.
RECURSIVE assignNew2(_, _)
assignNew2(m, list) ==
  IF list = <<>> THEN m
  ELSE LET photo == Head(list)
       IN IF photo.id \notin DOMAIN m.slotAssignments
          THEN LET found == findAvailableSlot(m)
               IN IF found.slot < m.totalSlots
                  THEN assignNew2(
                         [found.m EXCEPT
                            !.slotAssignments = SetKey(m.slotAssignments, photo.id, found.slot),
                            !.occupiedSlots = m.occupiedSlots \cup {found.slot}],
                         Tail(list))
                  ELSE assignNew2(found.m, Tail(list))
          ELSE assignNew2(m, Tail(list))

assignSlots2(m, photos) ==
  LET safe == safePhotos(photos)
      deleted == (DOMAIN m.slotAssignments) \ currentPhotoIds(photos)
  IN assignNew2(preserveExisting(clearDeleted(m, deleted), safe), safe)

(***************************************************************************)
(* The collage store: its photo list and the handlers that change it.       *)
(***************************************************************************)
StoreIds == {"A", "B", "C"}

Urls == {"u1", "u2"}

\* The photo rows the server can send.
StoreRows == [id : StoreIds, url : Urls]

\* A payload without the row the handler looks for (payload.new or
\* payload.old is missing).
NoRow == [id |-> "", url |-> ""]

\* Date.now(): the model keeps one value for every time after the start.
Now == 1

Store == [photos |-> statePhotos, lastRefreshTime |-> lastRefreshTime]

\* state.photos.some(p => p.id === id)
HasPhoto(list, id) == \E i \in 1..Len(list) : list[i].id = id

\* Mutant: the photo is added without looking for its id in the list.
addPhotoToState_NoExistsCheck(st, photo) ==
  [photos |-> <<photo>> \o st.photos, lastRefreshTime |-> Now]

addPhotoToState(st, photo) ==
  IF HasPhoto(st.photos, photo.id) THEN st
  ELSE [photos |-> <<photo>> \o st.photos, lastRefreshTime |-> Now]

removePhotoFromState(st, photoId) ==
  LET newPhotos == SelectSeq(st.photos, LAMBDA p : p.id # photoId)
  IN IF Len(st.photos) = Len(newPhotos)
     THEN [st EXCEPT !.lastRefreshTime = Now]
     ELSE [photos |-> newPhotos, lastRefreshTime |-> Now]

\* Mutant: an UPDATE for an id that is not in the list adds the row.
updatePhotoInState_AddsMissing(st, row) ==
  IF HasPhoto(st.photos, row.id)
  THEN [photos |-> [i \in DOMAIN st.photos |->
                      IF st.photos[i].id = row.id THEN row ELSE st.photos[i]],
        lastRefreshTime |-> Now]
  ELSE [photos |-> <<row>> \o st.photos, lastRefreshTime |-> Now]

\* The UPDATE branch of the postgres_changes handler.
updatePhotoInState(st, row) ==
  [photos |-> [i \in DOMAIN st.photos |->
                 IF st.photos[i].id = row.id THEN row ELSE st.photos[i]],
   lastRefreshTime |-> Now]

\* The postgres_changes handler, but for the re-check its DELETE branch
\* schedules.
onPostgresChange(st, eventType, row) ==
  IF eventType = "INSERT" /\ row # NoRow THEN addPhotoToState(st, row)
  ELSE IF eventType = "DELETE" /\ row # NoRow THEN removePhotoFromState(st, row.id)
  ELSE IF eventType = "UPDATE" /\ row # NoRow THEN updatePhotoInState(st, row)
  ELSE st

\* Mutant: the re-check looks for the photo and leaves it where it is.
recheckDeleted_OnlyLooks(st, photoId) == st

\* The callback the DELETE branch hands to setTimeout(..., 500).
recheckDeleted(st, photoId) ==
  IF HasPhoto(st.photos, photoId) THEN removePhotoFromState(st, photoId) ELSE st

\* The lists of rows the server returns for a collage: one row per id.
ServerLists ==
  { rows \in SeqsUpTo(StoreRows, Cardinality(StoreIds)) :
      \A i, j \in DOMAIN rows : rows[i].id = rows[j].id => i = j }

StoreStart ==
  /\ statePhotos = <<>>
  /\ lastRefreshTime = 0
  /\ recheckTimers = [id \in StoreIds |-> 0]
  /\ lastEvent = [type |-> "none"]

SlotParked ==
  /\ variant = 1
  /\ createdAt = UploadOrder
  /\ totalSlots = 0
  /\ slotAssignments = <<>>
  /\ occupiedSlots = {}
  /\ availableSlots = <<>>
  /\ deletedSlots = <<>>
  /\ lastCall = [op |-> "new", newTotal |-> 0]

(***************************************************************************)
(* Settings documents and deepMerge (collageStore.ts).  A document maps     *)
(* keys to values; a value is a number, an array or a nested document.      *)
(***************************************************************************)
Num(n) == [kind |-> "num", v |-> n]

Arr(a) == [kind |-> "arr", v |-> a]

Obj(d) == [kind |-> "obj", v |-> d]

\* The document {}.
EmptyDoc == [k \in {} |-> Num(0)]

\* The keys an array has as an object: "0", "1", ...
IndexKeys == <<"0", "1", "2">>

\* { ...value }: the own keys of a document, the indices of an array,
\* nothing of a number.
Spread(value) ==
  CASE value.kind = "obj" -> value.v
    [] value.kind = "arr" ->
         [k \in { IndexKeys[i] : i \in 1..Len(value.v) } |->
            Num(value.v[CHOOSE i \in 1..Len(value.v) : IndexKeys[i] = k])]
    [] OTHER -> EmptyDoc

RECURSIVE deepMerge_ArraysMerged(_, _)
\* Mutant: an array of the source is laid over the target's own array.
deepMerge_ArraysMerged(target, source) ==
  [key \in DOMAIN target \cup DOMAIN source |->
     IF key \notin DOMAIN source THEN target[key]
     ELSE IF source[key].kind = "obj"
     THEN Obj(deepMerge_ArraysMerged(IF key \in DOMAIN target THEN Spread(target[key])
                                     ELSE EmptyDoc,
                                     source[key].v))
     ELSE IF source[key].kind = "arr" /\ key \in DOMAIN target
             /\ target[key].kind = "arr" /\ Len(target[key].v) > Len(source[key].v)
     THEN Arr(source[key].v \o SubSeq(target[key].v, Len(source[key].v) + 1,
                                      Len(target[key].v)))
     ELSE source[key]]

RECURSIVE deepMerge(_, _)
\* output = { ...target }; each key of source is merged into output[key]
\* when its value is a non-array object, and assigned otherwise.
deepMerge(target, source) ==
  [key \in DOMAIN target \cup DOMAIN source |->
     IF key \notin DOMAIN source THEN target[key]
     ELSE IF source[key].kind = "obj"
     THEN Obj(deepMerge(IF key \in DOMAIN target THEN Spread(target[key])
                        ELSE EmptyDoc,
                        source[key].v))
     ELSE source[key]]

\* The documents tried: key a holds a number or a document over the keys b
\* and c, key d and the nested keys hold numbers or arrays.
Atoms == {Num(1), Num(2), Num(3), Arr(<<1, 2>>), Arr(<<3>>)}

NestedDocs == UNION { [S -> Atoms] : S \in SUBSET {"b", "c"} }

Docs ==
  UNION { { f \in [S -> Atoms \cup { Obj(n) : n \in NestedDocs }] :
              \A k \in S : (k = "d") => f[k] \in Atoms } :
          S \in SUBSET {"a", "d"} }

\* {a: {b: 1, c: 3}}, {a: {b: 2}}, {a: {c: 1}}, {d: [3]} and {a: {b: 2, c: 3}}.
DocA(nested) == [k \in {"a"} |-> Obj(nested)]

Baseline == DocA([j \in {"b", "c"} |-> IF j = "b" THEN Num(1) ELSE Num(3)])

PartialB == DocA([j \in {"b"} |-> Num(2)])

PartialC == DocA([j \in {"c"} |-> Num(1)])

PartialD == [k \in {"d"} |-> Arr(<<3>>)]

Overridden == DocA([j \in {"b", "c"} |-> IF j = "b" THEN Num(2) ELSE Num(3)])

\* createCollage is not running: it has no code.
NoCode == <<>>

\* No updateCollageSettings call has been made; the store and the server
\* hold the same document.
SettingsParked ==
  /\ settings = Baseline
  /\ savedSettings = Baseline
  /\ settingsCalls = {}

\* No pattern has generated positions yet: the static cache of FloatPattern
\* is empty.
PatternParked ==
  /\ basePositionsCache = [k \in {} |-> <<>>]
  /\ maxSlotsGenerated = 0
  /\ lastFrame = [pattern |-> "none"]

(***************************************************************************)
(* The rest of the collage store, the server and the pages, as they are     *)
(* before a collage is opened.                                              *)
(***************************************************************************)
NoCollage == "none"

NoError == "none"

\* Channel names and timer names the model hands out.
ChannelNames == 1..MaxChannels

IntervalNames == 1..MaxChannels

\* A channel name or a timer name that is not in use.
Free == "free"

\* A channel that is not subscribed, or not any more.
Closed == [filter |-> Free, joined |-> FALSE]

\* No page is mounted; cleanedUp tells that cleanupRealtimeSubscription has
\* run and setupRealtimeSubscription has not run since.
NoView == [page |-> "none", code |-> "", reconnects |-> {}, cleanedUp |-> FALSE]

EngineStart ==
  /\ currentCollage = NoCollage
  /\ loading = FALSE
  /\ error = NoError
  /\ collages = <<>>
  /\ realtimeChannel = 0
  /\ isRealtimeConnected = FALSE
  /\ pollingInterval = 0
  /\ channels = [c \in ChannelNames |-> Closed]
  /\ intervals = [t \in IntervalNames |-> Free]
  /\ view = NoView
  /\ serverRows = [id \in StoreIds |-> "new"]
  /\ pendingEvents = {}
  /\ tasks = {}
  /\ lastResult = [op |-> "none"]
  /\ SettingsParked
  /\ PatternParked
  /\ insertCode = NoCode

SetStore(st) ==
  /\ statePhotos' = st.photos
  /\ lastRefreshTime' = st.lastRefreshTime

\* What the ghost records of a mutation given a row.
EventOf(type, row) ==
  [type |-> type, row |-> row, present |-> HasPhoto(statePhotos, row.id)]

\* A feed event INSERT or UPDATE arrives.
FeedInsertOrUpdate ==
  /\ \E eventType \in {"INSERT", "UPDATE"} : \E row \in StoreRows \cup {NoRow} :
       /\ SetStore(onPostgresChange(Store, eventType, row))
       /\ lastEvent' = EventOf(eventType, row)
  /\ UNCHANGED <<recheckTimers, slotVars, engineVars>>

\* A feed event DELETE arrives: the photo is removed and a re-check is
\* scheduled.
FeedDelete ==
  /\ \E row \in StoreRows \cup {NoRow} :
       /\ row # NoRow => recheckTimers[row.id] < MaxPending
       /\ SetStore(onPostgresChange(Store, "DELETE", row))
       /\ recheckTimers' =
            IF row = NoRow THEN recheckTimers
            ELSE [recheckTimers EXCEPT ![row.id] = @ + 1]
       /\ lastEvent' = EventOf("DELETE", row)
  /\ UNCHANGED <<slotVars, engineVars>>

\* The re-check a DELETE event scheduled runs.
RecheckFires ==
  /\ \E id \in StoreIds :
       /\ recheckTimers[id] > 0
       /\ recheckTimers' = [recheckTimers EXCEPT ![id] = @ - 1]
       /\ SetStore(recheckDeleted(Store, id))
       /\ lastEvent' = [type |-> "recheck", row |-> [id |-> id, url |-> ""],
                        present |-> HasPhoto(statePhotos, id)]
  /\ UNCHANGED <<slotVars, engineVars>>

\* uploadPhoto, once the row is inserted, adds it to the list.
UploadPhotoAdds ==
  /\ \E row \in StoreRows :
       /\ SetStore(addPhotoToState(Store, row))
       /\ lastEvent' = EventOf("upload", row)
  /\ UNCHANGED <<recheckTimers, slotVars, engineVars>>

\* deletePhoto, once the row is deleted, removes it from the list.
DeletePhotoRemoves ==
  /\ \E id \in StoreIds :
       /\ SetStore(removePhotoFromState(Store, id))
       /\ lastEvent' = EventOf("delete", [id |-> id, url |-> ""])
  /\ UNCHANGED <<recheckTimers, slotVars, engineVars>>

\* fetchPhotosByCollageId receives the rows of the collage.
FetchPhotosSucceeds ==
  /\ \E data \in ServerLists :
       /\ statePhotos' = data
       /\ lastRefreshTime' = Now
  /\ lastEvent' = [type |-> "fetch"]
  /\ UNCHANGED <<recheckTimers, slotVars, engineVars>>

\* fetchCollageByCode and fetchCollageById start by emptying the list.
FetchCollageStarts ==
  /\ statePhotos' = <<>>
  /\ lastEvent' = [type |-> "open"]
  /\ UNCHANGED <<lastRefreshTime, recheckTimers, slotVars, engineVars>>

StoreInit == StoreStart /\ SlotParked /\ EngineStart

StoreNext ==
  \/ FeedInsertOrUpdate
  \/ FeedDelete
  \/ RecheckFires
  \/ UploadPhotoAdds
  \/ DeletePhotoRemoves
  \/ FetchPhotosSucceeds
  \/ FetchCollageStarts

StoreSpec == StoreInit /\ [][StoreNext]_vars

(***************************************************************************)
(* The calls a client can make on a manager.                                *)
(***************************************************************************)
Photo(id) == [id |-> id, created_at |-> createdAt[id]]

\* The lists assignSlots can be given: photo rows, with repetitions, and
\* possibly led by an entry the filter rejects ("" stands for it).
IdLists ==
  LET rows == SeqsUpTo(PhotoIds, MaxLen)
  IN rows \cup { <<"">> \o ids : ids \in { r \in rows : Len(r) < MaxLen } }

Rows(ids) == [i \in DOMAIN ids |-> IF ids[i] = "" THEN NullPhoto ELSE Photo(ids[i])]

PhotoLists == { Rows(ids) : ids \in IdLists }

SlotCounts == 0..MaxSlots

\* new SlotManager(n) of the given version.
Construct(v, n) ==
  IF v = 1 THEN updateSlotCount(EmptyManager, n) ELSE updateSlotCount2(EmptyManager, n)

\* The managers a call of assignSlots(photos) on manager m can leave, for
\* the version that is running.
assignSlotsOf(v, m, photos) ==
  IF v = 1 THEN assignSlots(m, photos) ELSE { assignSlots2(m, photos) }

Install(m) ==
  /\ totalSlots' = m.totalSlots
  /\ slotAssignments' = m.slotAssignments
  /\ occupiedSlots' = m.occupiedSlots
  /\ availableSlots' = m.availableSlots
  /\ deletedSlots' = m.deletedSlots

SlotInit ==
  /\ variant \in {1, 2}
  /\ createdAt \in (IF variant = 1 THEN TimestampTables ELSE {UploadOrder})
  /\ \E n \in SlotCounts :
       LET m == Construct(variant, n)
       IN /\ totalSlots = m.totalSlots
          /\ slotAssignments = m.slotAssignments
          /\ occupiedSlots = m.occupiedSlots
          /\ availableSlots = m.availableSlots
          /\ deletedSlots = m.deletedSlots
  /\ lastCall = [op |-> "new", newTotal |-> totalSlots]
  /\ StoreStart
  /\ EngineStart

AssignSlotsV1 ==
  /\ variant = 1
  /\ \E photos \in PhotoLists : \E m \in assignSlotsOf(1, Manager, photos) :
       /\ Install(m)
       /\ lastCall' = [op |-> "assignSlots", ids |-> currentPhotoIds(photos)]
  /\ UNCHANGED <<variant, createdAt, storeVars, engineVars>>

AssignSlotsV2 ==
  /\ variant = 2
  /\ \E photos \in PhotoLists : \E m \in assignSlotsOf(2, Manager, photos) :
       /\ Install(m)
       /\ lastCall' = [op |-> "assignSlots", ids |-> currentPhotoIds(photos)]
  /\ UNCHANGED <<variant, createdAt, storeVars, engineVars>>

UpdateSlotCountV1 ==
  /\ variant = 1
  /\ \E newTotal \in SlotCounts :
       /\ Install(updateSlotCount(Manager, newTotal))
       /\ lastCall' = [op |-> "updateSlotCount", newTotal |-> newTotal,
                       dropped |-> { p \in DOMAIN slotAssignments :
                                      slotAssignments[p] >= newTotal }]
  /\ UNCHANGED <<variant, createdAt, storeVars, engineVars>>

UpdateSlotCountV2 ==
  /\ variant = 2
  /\ \E newTotal \in SlotCounts :
       /\ Install(updateSlotCount2(Manager, newTotal))
       /\ lastCall' = [op |-> "updateSlotCount", newTotal |-> newTotal,
                       dropped |-> { p \in DOMAIN slotAssignments :
                                      slotAssignments[p] >= newTotal }]
  /\ UNCHANGED <<variant, createdAt, storeVars, engineVars>>

SlotNext ==
  \/ AssignSlotsV1
  \/ AssignSlotsV2
  \/ UpdateSlotCountV1
  \/ UpdateSlotCountV2

SlotSpec == SlotInit /\ [][SlotNext]_vars

(***************************************************************************)
(* Properties of the SlotManager.                                           *)
(***************************************************************************)
managerVars ==
  <<totalSlots, slotAssignments, occupiedSlots, availableSlots, deletedSlots>>

AssignedIds == DOMAIN slotAssignments

UsedSlots == { slotAssignments[p] : p \in AssignedIds }

Min(a, b) == IF a < b THEN a ELSE b

\* The lists whose photo ids are the ones the last assignSlots call was given.
IdListsOf ==
  [ ids \in SUBSET PhotoIds |->
      { l \in IdLists : { l[i] : i \in DOMAIN l } \ {""} = ids } ]

ListsOf(ids) == { Rows(l) : l \in IdListsOf[ids] }

\* C1: an assignSlots call leaves every photo that was assigned before it
\* and is in the list it is given on the slot the photo had.
C1_SlotStability ==
  [][ lastCall'.op = "assignSlots" =>
        \A p \in AssignedIds \cap lastCall'.ids :
           /\ p \in DOMAIN slotAssignments'
           /\ slotAssignments'[p] = slotAssignments[p] ]_vars

\* After an assignSlots call a photo sits above a free slot: it kept its
\* slot when a photo below it was removed.
C1_Witness ==
  /\ lastCall.op = "assignSlots"
  /\ \E p \in AssignedIds :
       \E t \in 0..(slotAssignments[p] - 1) : t \notin UsedSlots

\* C2: no two assigned photos share a slot, and every assigned slot index
\* is at least 0 and below the current slot count.
C2_NoCollision ==
  /\ \A p, q \in AssignedIds : p # q => slotAssignments[p] # slotAssignments[q]
  /\ \A p \in AssignedIds : 0 <= slotAssignments[p] /\ slotAssignments[p] < totalSlots

\* updateSlotCount has dropped assignments and left the manager full.
C2_Witness ==
  /\ lastCall.op = "updateSlotCount"
  /\ lastCall.dropped # {}
  /\ totalSlots >= 2
  /\ Cardinality(AssignedIds) = totalSlots

\* C3: right after assignSlots(L), calling assignSlots(L) again leaves the
\* assignment map and the free-slot bookkeeping as they are (L ranges over
\* the lists with the photo ids of the last call).
C3_Idempotent ==
  lastCall.op = "assignSlots" =>
    \A photos \in ListsOf(lastCall.ids) :
       assignSlotsOf(variant, Manager, photos) = { Manager }

\* The manager after an assignSlots call that left photos assigned and, for
\* want of slots, photos unassigned.
C3_Witness ==
  /\ lastCall.op = "assignSlots"
  /\ AssignedIds # {}
  /\ Cardinality(lastCall.ids) > Cardinality(AssignedIds)

\* The assignment maps a call of assignSlots(photos) on manager m can leave.
MapsAfter(m, photos) ==
  { r.slotAssignments : r \in assignSlotsOf(variant, m, photos) }

\* C4: a photo that gets a slot gets the lowest free one, so a slot freed by
\* a removal is reused before a slot that was never used.  With 3 slots and
\* A:0, B:1, C:2, a call with A, C, D gives D slot 1; with 4 slots and A:0,
\* B:1, C:2, a call without B and then a call with A, C, D end with exactly
\* A:0, C:2, D:1.
C4_RecyclingPreference ==
  /\ [][ lastCall'.op = "assignSlots" =>
           \A p \in (DOMAIN slotAssignments') \ AssignedIds :
              \A t \in 0..(slotAssignments'[p] - 1) :
                 \E q \in DOMAIN slotAssignments' : slotAssignments'[q] = t ]_vars
  /\ [](/\ (totalSlots = 3 /\ slotAssignments = ("A" :> 0 @@ "B" :> 1 @@ "C" :> 2)) =>
            \A photos \in ListsOf({"A", "C", "D"}) :
               MapsAfter(Manager, photos) = { ("A" :> 0 @@ "C" :> 2 @@ "D" :> 1) }
        /\ (totalSlots = 4 /\ slotAssignments = ("A" :> 0 @@ "B" :> 1 @@ "C" :> 2)) =>
            \A deleted \in ListsOf({"A", "C"}) :
               \A r \in assignSlotsOf(variant, Manager, deleted) :
                  /\ r.slotAssignments = ("A" :> 0 @@ "C" :> 2)
                  /\ \A photos \in ListsOf({"A", "C", "D"}) :
                       MapsAfter(r, photos) = { ("A" :> 0 @@ "C" :> 2 @@ "D" :> 1) })

\* With 4 slots, D holds slot 1, freed by B, after a call with A, C, D,
\* while slot 3 was never used.
C4_Witness ==
  /\ totalSlots = 4
  /\ lastCall.op = "assignSlots"
  /\ lastCall.ids = {"A", "C", "D"}
  /\ slotAssignments = ("A" :> 0 @@ "C" :> 2 @@ "D" :> 1)
  /\ createdAt = UploadOrder

\* C5: from any manager state, two lists that are rearrangements of each
\* other lead assignSlots to one and the same assignment map.
C5_OrderIndependent ==
  \A photos \in PhotoLists : \A other \in PermutationsOf(photos) :
     /\ MapsAfter(Manager, photos) = MapsAfter(Manager, other)
     /\ Cardinality(MapsAfter(Manager, photos)) = 1

\* The managers a fresh manager with the current slot count can be left in
\* by a call with the photo ids of the last assignSlots call.
FreshResults ==
  UNION { assignSlotsOf(variant, Construct(variant, totalSlots), photos) :
            photos \in ListsOf(lastCall.ids) }

\* C6 as stated: after an assignSlots call the assignment map is the one a
\* fresh manager with the same slot count reaches from the same photos.
C6_HistoryIndependent ==
  lastCall.op = "assignSlots" =>
    \E r \in FreshResults : r.slotAssignments = slotAssignments

\* C6 as amended: after an assignSlots call as many photos are assigned as
\* a fresh manager with the same slot count assigns from the same photos,
\* and the same photos when the slot count covers them all.
C6_SameCountAsFresh ==
  lastCall.op = "assignSlots" =>
    \A r \in FreshResults :
       /\ Cardinality(DOMAIN r.slotAssignments) = Cardinality(AssignedIds)
       /\ Cardinality(lastCall.ids) <= totalSlots =>
            DOMAIN r.slotAssignments = AssignedIds

\* After an assignSlots call the map differs from every map a fresh manager
\* reaches from the same photos.
C6_Witness ==
  /\ lastCall.op = "assignSlots"
  /\ \A r \in FreshResults : r.slotAssignments # slotAssignments

\* C7: after assignSlots(L) with c slots, min(number of distinct ids in L, c)
\* photos are assigned and each of them is in L; with no slot no photo is
\* ever assigned.
C7_AssignedCount ==
  /\ lastCall.op = "assignSlots" =>
       /\ Cardinality(AssignedIds) = Min(Cardinality(lastCall.ids), totalSlots)
       /\ AssignedIds \subseteq lastCall.ids
  /\ totalSlots = 0 => AssignedIds = {}

\* An assignSlots call was given more photos than there are slots.
C7_Witness ==
  /\ lastCall.op = "assignSlots"
  /\ totalSlots >= 1
  /\ Cardinality(lastCall.ids) > totalSlots
  /\ Cardinality(AssignedIds) = totalSlots

\* C8: updateSlotCount(n) with n the current count changes nothing; any
\* other n becomes the count, the assignments with a slot index >= n are
\* dropped and the others stay as they are; only assignSlots assigns.
C8_UpdateSlotCount ==
  [][ /\ lastCall'.op = "updateSlotCount" =>
           IF lastCall'.newTotal = totalSlots
           THEN UNCHANGED managerVars
           ELSE /\ totalSlots' = lastCall'.newTotal
                /\ slotAssignments' =
                     [ p \in { q \in AssignedIds : slotAssignments[q] < lastCall'.newTotal }
                         |-> slotAssignments[p] ]
      /\ lastCall'.op # "assignSlots" => DOMAIN slotAssignments' \subseteq AssignedIds
    ]_vars

\* updateSlotCount has dropped some assignments and kept others.
C8_Witness ==
  /\ lastCall.op = "updateSlotCount"
  /\ lastCall.dropped # {}
  /\ AssignedIds # {}

\* C28: after construction and after every updateSlotCount and assignSlots
\* call, the occupied set holds exactly the slot indices some photo id maps
\* to, and the free-slot list holds exactly the indices of 0..capacity-1
\* that are not occupied, each once and in ascending order.
C28_BookkeepingConsistent ==
  /\ occupiedSlots = UsedSlots
  /\ availableSlots =
       Ascending({ i \in 0..(totalSlots - 1) : i \notin occupiedSlots })

\* An assignSlots call has freed the slot of a removed photo below an
\* occupied one, and slots on both sides of the occupied one are free.
C28_Witness ==
  /\ lastCall.op = "assignSlots"
  /\ \E i, j, k \in 0..(totalSlots - 1) :
       /\ i < j /\ j < k
       /\ j \in occupiedSlots
       /\ Contains(availableSlots, i) /\ Contains(availableSlots, k)

(***************************************************************************)
(* Properties of the store's photo list.                                    *)
(***************************************************************************)
\* The entries of a list that carry the id.
EntriesWith(list, id) == { i \in DOMAIN list : list[i].id = id }

NoDuplicateIds(list) ==
  \A i, j \in DOMAIN list : list[i].id = list[j].id => i = j

\* C9: removing an id that is not in the list leaves the list as it is;
\* adding a photo a second time (a repeated INSERT event, or the upload's own
\* add and its INSERT event, in either order) leaves the list as the first
\* add left it, with one entry of that id; the list never holds two entries
\* of one id.
C9_StoreIdempotent ==
  /\ NoDuplicateIds(statePhotos)
  /\ \A id \in StoreIds :
       ~HasPhoto(statePhotos, id) =>
         removePhotoFromState(Store, id).photos = statePhotos
  /\ \A row \in StoreRows :
       LET once == addPhotoToState(Store, row)
           twice == addPhotoToState(once, row)
       IN /\ twice = once
          /\ Cardinality(EntriesWith(twice.photos, row.id)) = 1
  /\ (lastEvent.type \in {"INSERT", "upload"} /\ lastEvent.row # NoRow) =>
       Cardinality(EntriesWith(statePhotos, lastEvent.row.id)) = 1

\* An INSERT event has just been applied for a photo the list already held,
\* and the list holds that id once, among other photos.
C9_Witness ==
  /\ lastEvent.type = "INSERT"
  /\ lastEvent.row # NoRow
  /\ lastEvent.present
  /\ Cardinality(EntriesWith(statePhotos, lastEvent.row.id)) = 1
  /\ Len(statePhotos) >= 2

\* C10 as stated: after an INSERT or UPDATE event carrying row P the list
\* holds exactly one entry with P's id and that entry is P.
C10_Upsert ==
  (lastEvent.type \in {"INSERT", "UPDATE"} /\ lastEvent.row # NoRow) =>
    /\ Cardinality(EntriesWith(statePhotos, lastEvent.row.id)) = 1
    /\ \A i \in EntriesWith(statePhotos, lastEvent.row.id) :
         statePhotos[i] = lastEvent.row

\* C10 (amended): an INSERT event carrying row P adds P when the list holds no
\* entry with P's id and leaves the list as it is when it holds one; an UPDATE
\* event carrying P puts P in the place of the entry with P's id when the list
\* holds one and adds nothing when it holds none; either way the list holds at
\* most one entry with P's id afterwards.
C10_InsertAddsUpdateReplaces ==
  /\ \A row \in StoreRows :
       LET ins == onPostgresChange(Store, "INSERT", row).photos
           upd == onPostgresChange(Store, "UPDATE", row).photos
       IN IF HasPhoto(statePhotos, row.id)
          THEN /\ ins = statePhotos
               /\ Len(upd) = Len(statePhotos)
               /\ \A i \in DOMAIN upd :
                    upd[i] = IF statePhotos[i].id = row.id THEN row
                             ELSE statePhotos[i]
          ELSE /\ ins = <<row>> \o statePhotos
               /\ upd = statePhotos
  /\ (lastEvent.type \in {"INSERT", "UPDATE"} /\ lastEvent.row # NoRow) =>
       LET held == EntriesWith(statePhotos, lastEvent.row.id)
       IN /\ Cardinality(held) <= 1
          /\ lastEvent.type = "INSERT" =>
               /\ Cardinality(held) = 1
               /\ ~lastEvent.present =>
                    \A i \in held : statePhotos[i] = lastEvent.row
          /\ lastEvent.type = "UPDATE" =>
               IF lastEvent.present
               THEN /\ Cardinality(held) = 1
                    /\ \A i \in held : statePhotos[i] = lastEvent.row
               ELSE held = {}

\* An UPDATE event has just been applied for a photo the list did not hold,
\* and the list, which holds other photos, still does not hold it.
C10_Witness ==
  /\ lastEvent.type = "UPDATE"
  /\ lastEvent.row # NoRow
  /\ ~lastEvent.present
  /\ ~HasPhoto(statePhotos, lastEvent.row.id)
  /\ Len(statePhotos) >= 1

(***************************************************************************)
(* Subscription and polling: setupRealtimeSubscription,                     *)
(* cleanupRealtimeSubscription, startPolling, stopPolling and the status    *)
(* callback, as functions of the fields they read and write.               *)
(***************************************************************************)
Engine == [realtimeChannel |-> realtimeChannel,
           isRealtimeConnected |-> isRealtimeConnected,
           pollingInterval |-> pollingInterval,
           channels |-> channels,
           intervals |-> intervals]

SetEngine(e) ==
  /\ realtimeChannel' = e.realtimeChannel
  /\ isRealtimeConnected' = e.isRealtimeConnected
  /\ pollingInterval' = e.pollingInterval
  /\ channels' = e.channels
  /\ intervals' = e.intervals

\* The names of the interval timers that run, of the channels that are
\* subscribed.
InUse(names) == { n \in DOMAIN names : names[n] # Free }

Subscribed(chans) == { n \in DOMAIN chans : chans[n].filter # Free }

Lowest(S) == CHOOSE n \in S : \A m \in S : n <= m

\* currentChannel.unsubscribe(); set({ realtimeChannel: null, isRealtimeConnected: false })
\* when the store holds a channel.
unsubscribeCurrent(e) ==
  IF e.realtimeChannel # 0
  THEN [e EXCEPT !.channels = [@ EXCEPT ![e.realtimeChannel] = Closed],
                 !.realtimeChannel = 0,
                 !.isRealtimeConnected = FALSE]
  ELSE e

\* supabase.channel(...).on(...).subscribe(...); set({ realtimeChannel: channel })
openChannel(e, collageId) ==
  IF Subscribed(e.channels) # DOMAIN e.channels
  THEN LET name == Lowest(DOMAIN e.channels \ Subscribed(e.channels))
       IN [e EXCEPT !.channels = [@ EXCEPT ![name] =
                                    [filter |-> collageId, joined |-> FALSE]],
                    !.realtimeChannel = name]
  ELSE e

\* Mutant: the channel the store holds is not unsubscribed first.
setupRealtimeSubscription_KeepsOld(e, collageId) == openChannel(e, collageId)

setupRealtimeSubscription(e, collageId) ==
  openChannel(unsubscribeCurrent(e), collageId)

stopPolling(e) ==
  IF e.pollingInterval # 0
  THEN [e EXCEPT !.intervals = [@ EXCEPT ![e.pollingInterval] = Free],
                 !.pollingInterval = 0]
  ELSE e

startPolling(e, collageId) ==
  LET stopped == stopPolling(e)
  IN IF InUse(stopped.intervals) # DOMAIN stopped.intervals
     THEN LET name == Lowest(DOMAIN stopped.intervals \ InUse(stopped.intervals))
          IN [stopped EXCEPT !.intervals = [@ EXCEPT ![name] = collageId],
                             !.pollingInterval = name]
     ELSE stopped

cleanupRealtimeSubscription(e) ==
  stopPolling([unsubscribeCurrent(e) EXCEPT !.realtimeChannel = 0,
                                            !.isRealtimeConnected = FALSE])

Statuses == {"SUBSCRIBED", "CHANNEL_ERROR", "TIMED_OUT", "CLOSED"}

\* Mutant: polling is left as it is when the channel reports SUBSCRIBED.
onStatus_NoStop(e, name, status) ==
  LET connected == (status = "SUBSCRIBED")
      flagged == [e EXCEPT !.isRealtimeConnected = connected,
                           !.channels = [@ EXCEPT ![name].joined = connected]]
  IN IF ~connected THEN startPolling(flagged, e.channels[name].filter)
     ELSE flagged

\* The callback given to subscribe(), called by channel `name`.
onStatus(e, name, status) ==
  LET connected == (status = "SUBSCRIBED")
      flagged == [e EXCEPT !.isRealtimeConnected = connected,
                           !.channels = [@ EXCEPT ![name].joined = connected]]
  IN IF ~connected THEN startPolling(flagged, e.channels[name].filter)
     ELSE stopPolling(flagged)

(***************************************************************************)
(* The change feed: the server's photos table, the events it sends, the     *)
(* photo operations of the store that talk to it, for one open collage.     *)
(***************************************************************************)
\* Most change-feed events sent and not yet delivered.
MaxInFlight == 2
\* Most asynchronous operations in flight.
MaxTasks == 1

FeedIds == {"A", "B"}

\* The row of a photo as the server holds it.
Row(id) == [id |-> id, url |-> "u1"]

\* The ids of the photos in a list.
IdsOf(list) == { list[i].id : i \in DOMAIN list }

LiveIds(ids) == { id \in ids : serverRows[id] = "live" }

\* select('*') ... order('created_at', { ascending: false }): the rows of a
\* set of ids, newest first (photo ids are created in alphabetical order).
RECURSIVE NewestFirst(_)
NewestFirst(ids) ==
  IF ids = {} THEN <<>>
  ELSE LET newest == CHOOSE id \in ids : \A other \in ids : IdRank(other) <= IdRank(id)
       IN <<Row(newest)>> \o NewestFirst(ids \ {newest})

\* An operation in flight: where it stands, what it was answered, and
\* whether the view that started it has since been left (stale).
Task(op, id, pc, data) ==
  [op |-> op, id |-> id, pc |-> pc, data |-> data, stale |-> FALSE]

Event(type, id) == [type |-> type, id |-> id]

\* How an operation ended: returned, or thrown to its caller; failed tells
\* whether the server or the network had failed it.
Result(op, id, outcome, failed) ==
  [op |-> op, id |-> id, outcome |-> outcome, failed |-> failed]

\* The open collage of the feed: its channel is subscribed and joined.
OpenCollage ==
  /\ currentCollage = "c1"
  /\ loading = FALSE
  /\ error = NoError
  /\ collages = <<>>
  /\ realtimeChannel = 1
  /\ isRealtimeConnected = TRUE
  /\ pollingInterval = 0
  /\ channels = [c \in ChannelNames |->
                   IF c = 1 THEN [filter |-> "c1", joined |-> TRUE] ELSE Closed]
  /\ intervals = [t \in IntervalNames |-> Free]
  /\ view = [page |-> "viewer", code |-> "K1", reconnects |-> {}, cleanedUp |-> FALSE]
  /\ serverRows = [id \in StoreIds |-> "new"]
  /\ pendingEvents = {}
  /\ tasks = {}
  /\ lastResult = [op |-> "none"]
  /\ PatternParked
  /\ insertCode = NoCode

feedFrame == <<slotVars, lastEvent, currentCollage, loading, collages, realtimeChannel,
               isRealtimeConnected, pollingInterval, channels, intervals, view,
               settingsVars, patternVars, insertCode>>

\* Another client uploads a photo: the server inserts the row and sends INSERT.
ServerInserts ==
  /\ Cardinality(pendingEvents) < MaxInFlight
  /\ \E id \in FeedIds :
       /\ serverRows[id] = "new"
       /\ serverRows' = [serverRows EXCEPT ![id] = "live"]
       /\ pendingEvents' = pendingEvents \cup {Event("INSERT", id)}
  /\ UNCHANGED <<statePhotos, lastRefreshTime, recheckTimers, error, tasks,
                 lastResult, feedFrame>>

\* Another client deletes a photo: the server deletes the row and sends DELETE.
ServerDeletes ==
  /\ Cardinality(pendingEvents) < MaxInFlight
  /\ \E id \in FeedIds :
       /\ serverRows[id] = "live"
       /\ serverRows' = [serverRows EXCEPT ![id] = "gone"]
       /\ pendingEvents' = pendingEvents \cup {Event("DELETE", id)}
  /\ UNCHANGED <<statePhotos, lastRefreshTime, recheckTimers, error, tasks,
                 lastResult, feedFrame>>

\* A row is updated on the server, which sends UPDATE.
ServerUpdates ==
  /\ Cardinality(pendingEvents) < MaxInFlight
  /\ \E id \in FeedIds :
       /\ serverRows[id] = "live"
       /\ pendingEvents' = pendingEvents \cup {Event("UPDATE", id)}
  /\ UNCHANGED <<statePhotos, lastRefreshTime, recheckTimers, error, tasks,
                 lastResult, serverRows, feedFrame>>

\* The channel delivers an event to the postgres_changes handler; the feed
\* may deliver the same event again later.
DeliverEvent ==
  /\ \E e \in pendingEvents : \E again \in BOOLEAN :
       /\ \E name \in Subscribed(channels) :
            channels[name].joined /\ channels[name].filter = "c1"
       /\ e.type = "DELETE" => recheckTimers[e.id] < MaxPending
       /\ SetStore(onPostgresChange(Store, e.type, Row(e.id)))
       /\ recheckTimers' = IF e.type = "DELETE"
                           THEN [recheckTimers EXCEPT ![e.id] = @ + 1]
                           ELSE recheckTimers
       /\ pendingEvents' = IF again THEN pendingEvents ELSE pendingEvents \ {e}
  /\ UNCHANGED <<error, tasks, lastResult, serverRows, feedFrame>>

\* The re-check a DELETE event scheduled runs.
FeedRecheckFires ==
  /\ \E id \in FeedIds :
       /\ recheckTimers[id] > 0
       /\ recheckTimers' = [recheckTimers EXCEPT ![id] = @ - 1]
       /\ SetStore(recheckDeleted(Store, id))
  /\ UNCHANGED <<error, tasks, lastResult, serverRows, pendingEvents, feedFrame>>

\* deletePhoto(id) is called for a photo the list shows, and asks the
\* server for the photo's url.
DeletePhotoStarts ==
  /\ Cardinality(tasks) < MaxTasks
  /\ \E id \in FeedIds :
       /\ HasPhoto(statePhotos, id)
       /\ tasks' = tasks \cup {Task("deletePhoto", id, "select", <<>>)}
  /\ UNCHANGED <<statePhotos, lastRefreshTime, recheckTimers, error, lastResult,
                 serverRows, pendingEvents, feedFrame>>

\* The answer to select('url')...single(): an error when the request fails
\* or finds no row, and deletePhoto throws it; else deletePhoto asks the
\* server to delete the row.
DeletePhotoSelects ==
  /\ \E t \in tasks : \E failed \in BOOLEAN :
       /\ t.op = "deletePhoto" /\ t.pc = "select"
       /\ IF failed \/ serverRows[t.id] # "live"
          THEN /\ tasks' = tasks \ {t}
               /\ lastResult' = Result("deletePhoto", t.id, "thrown", failed)
          ELSE /\ tasks' = (tasks \ {t}) \cup {Task("deletePhoto", t.id, "delete", <<>>)}
               /\ UNCHANGED lastResult
  /\ UNCHANGED <<statePhotos, lastRefreshTime, recheckTimers, error,
                 serverRows, pendingEvents, feedFrame>>

\* The server runs delete().eq('id', photoId): it deletes the row if it is
\* there, and sends DELETE for it; or the request fails.
DeletePhotoServerDeletes ==
  /\ Cardinality(pendingEvents) < MaxInFlight
  /\ \E t \in tasks : \E failed \in BOOLEAN :
       /\ t.op = "deletePhoto" /\ t.pc = "delete"
       /\ IF failed
          THEN /\ tasks' = (tasks \ {t}) \cup {Task("deletePhoto", t.id, "failed", <<>>)}
               /\ UNCHANGED <<serverRows, pendingEvents>>
          ELSE /\ tasks' = (tasks \ {t}) \cup {Task("deletePhoto", t.id, "deleted", <<>>)}
               /\ serverRows' = [serverRows EXCEPT ![t.id] =
                                   IF @ = "live" THEN "gone" ELSE @]
               /\ pendingEvents' = IF serverRows[t.id] = "live"
                                   THEN pendingEvents \cup {Event("DELETE", t.id)}
                                   ELSE pendingEvents
  /\ UNCHANGED <<statePhotos, lastRefreshTime, recheckTimers, error, lastResult,
                 feedFrame>>

\* deletePhoto gets the answer to its delete: on an error it throws, else
\* it removes the photo from the list and, whatever the removal of the file
\* from storage gives, returns.
DeletePhotoEnds ==
  /\ \E t \in tasks :
       /\ t.op = "deletePhoto" /\ t.pc \in {"deleted", "failed"}
       /\ tasks' = tasks \ {t}
       /\ IF t.pc = "failed"
          THEN /\ lastResult' = Result("deletePhoto", t.id, "thrown", TRUE)
               /\ UNCHANGED <<statePhotos, lastRefreshTime>>
          ELSE /\ lastResult' = Result("deletePhoto", t.id, "returned", FALSE)
               /\ SetStore(removePhotoFromState(Store, t.id))
  /\ UNCHANGED <<recheckTimers, error, serverRows, pendingEvents, feedFrame>>

\* uploadPhoto is called: it throws on a file that is too large or not an
\* image, else it sends the file to storage.
UploadPhotoStarts ==
  /\ Cardinality(tasks) < MaxTasks
  /\ \E valid \in BOOLEAN :
       IF valid
       THEN /\ tasks' = tasks \cup {Task("uploadPhoto", "", "storage", <<>>)}
            /\ UNCHANGED lastResult
       ELSE /\ lastResult' = Result("uploadPhoto", "", "thrown", TRUE)
            /\ UNCHANGED tasks
  /\ UNCHANGED <<statePhotos, lastRefreshTime, recheckTimers, error,
                 serverRows, pendingEvents, feedFrame>>

\* The file is stored and the server inserts the photo's row, sending
\* INSERT for it; or one of the two requests fails and uploadPhoto throws.
UploadPhotoServerInserts ==
  /\ Cardinality(pendingEvents) < MaxInFlight
  /\ \E t \in tasks : \E failed \in BOOLEAN :
       /\ t.op = "uploadPhoto" /\ t.pc = "storage"
       /\ IF failed
          THEN /\ tasks' = tasks \ {t}
               /\ lastResult' = Result("uploadPhoto", "", "thrown", TRUE)
               /\ UNCHANGED <<serverRows, pendingEvents>>
          ELSE \E id \in FeedIds :
               /\ serverRows[id] = "new"
               /\ serverRows' = [serverRows EXCEPT ![id] = "live"]
               /\ pendingEvents' = pendingEvents \cup {Event("INSERT", id)}
               /\ tasks' = (tasks \ {t}) \cup {Task("uploadPhoto", id, "inserted", <<>>)}
               /\ UNCHANGED lastResult
  /\ UNCHANGED <<statePhotos, lastRefreshTime, recheckTimers, error, feedFrame>>

\* uploadPhoto gets the inserted row, adds it to the list and returns it.
UploadPhotoEnds ==
  /\ \E t \in tasks :
       /\ t.op = "uploadPhoto" /\ t.pc = "inserted"
       /\ tasks' = tasks \ {t}
       /\ SetStore(addPhotoToState(Store, Row(t.id)))
       /\ lastResult' = Result("uploadPhoto", t.id, "returned", FALSE)
  /\ UNCHANGED <<recheckTimers, error, serverRows, pendingEvents, feedFrame>>

\* fetchPhotosByCollageId is called (a polling tick, a manual refresh): the
\* server reads the rows of the collage, or the request fails.
FetchPhotosStarts ==
  /\ Cardinality(tasks) < MaxTasks
  /\ \E failed \in BOOLEAN :
       tasks' = tasks \cup
         { IF failed THEN Task("fetchPhotos", "c1", "failed", <<>>)
           ELSE Task("fetchPhotos", "c1", "answered", NewestFirst(LiveIds(FeedIds))) }
  /\ UNCHANGED <<statePhotos, lastRefreshTime, recheckTimers, error, lastResult,
                 serverRows, pendingEvents, feedFrame>>

\* fetchPhotosByCollageId gets its answer: the rows replace the list, or
\* the error is recorded and thrown again.
FetchPhotosEnds ==
  /\ \E t \in tasks :
       /\ t.op = "fetchPhotos"
       /\ tasks' = tasks \ {t}
       /\ IF t.pc = "failed"
          THEN /\ error' = "failed"
               /\ lastResult' = Result("fetchPhotosByCollageId", t.id, "thrown", TRUE)
               /\ UNCHANGED <<statePhotos, lastRefreshTime>>
          ELSE /\ statePhotos' = t.data
               /\ lastRefreshTime' = Now
               /\ lastResult' = Result("fetchPhotosByCollageId", t.id, "returned", FALSE)
               /\ UNCHANGED error
  /\ UNCHANGED <<recheckTimers, serverRows, pendingEvents, feedFrame>>

FeedInit ==
  /\ SlotParked
  /\ statePhotos = <<>>
  /\ lastRefreshTime = 0
  /\ recheckTimers = [id \in StoreIds |-> 0]
  /\ lastEvent = [type |-> "none"]
  /\ OpenCollage
  /\ SettingsParked

FeedNext ==
  \/ ServerInserts
  \/ ServerDeletes
  \/ ServerUpdates
  \/ DeliverEvent
  \/ FeedRecheckFires
  \/ DeletePhotoStarts
  \/ DeletePhotoSelects
  \/ DeletePhotoServerDeletes
  \/ DeletePhotoEnds
  \/ UploadPhotoStarts
  \/ UploadPhotoServerInserts
  \/ UploadPhotoEnds
  \/ FetchPhotosStarts
  \/ FetchPhotosEnds

FeedSpec == FeedInit /\ [][FeedNext]_vars

(***************************************************************************)
(* Properties of the change feed.                                           *)
(***************************************************************************)
\* Nothing is on its way to the store: no event, no re-check, no answer.
Quiescent ==
  /\ pendingEvents = {}
  /\ tasks = {}
  /\ \A id \in StoreIds : recheckTimers[id] = 0

\* C27: a DELETE event for a photo removes it from the list at once and
\* schedules exactly one re-check; when the re-check runs the photo is absent
\* afterwards whatever put it back in between, the re-check schedules
\* nothing, and it changes nothing when the photo was already absent.
\* Nothing else schedules or cancels a re-check.
C27_DeleteRecheck ==
  [][ LET id == lastEvent'.row.id
      IN CASE lastEvent'.type = "DELETE" /\ lastEvent'.row # NoRow ->
                /\ ~HasPhoto(statePhotos', id)
                /\ recheckTimers' = [recheckTimers EXCEPT ![id] = @ + 1]
           [] lastEvent'.type = "recheck" ->
                /\ ~HasPhoto(statePhotos', id)
                /\ recheckTimers' = [recheckTimers EXCEPT ![id] = @ - 1]
                /\ ~HasPhoto(statePhotos, id) =>
                     UNCHANGED <<statePhotos, lastRefreshTime>>
           [] OTHER -> UNCHANGED recheckTimers
    ]_vars

\* The re-check of a deleted photo has run while the list showed the photo
\* again, next to another photo, and has removed it.
C27_Witness ==
  /\ lastEvent.type = "recheck"
  /\ lastEvent.present
  /\ ~HasPhoto(statePhotos, lastEvent.row.id)
  /\ Len(statePhotos) > 0

\* C11 as stated: a deletePhoto(X) that no failed request stopped ends
\* without throwing, whatever the order in which it and the feed's DELETE
\* event for X are handled, and once both are handled X is not in the list.
C11_DeleteConvergesWithoutError ==
  (lastResult.op = "deletePhoto" /\ ~lastResult.failed) =>
    /\ lastResult.outcome = "returned"
    /\ Quiescent => ~HasPhoto(statePhotos, lastResult.id)

\* C17 as stated: once every event, re-check and fetch answer has been
\* handled, the ids in the list are the ids of the rows the server holds.
C17_Converges ==
  Quiescent => IdsOf(statePhotos) = LiveIds(FeedIds)

(***************************************************************************)
(* Opening a collage: fetchCollageByCode and fetchCollageById, the pages    *)
(* that call them, the channel's status callback and the polling timer.     *)
(***************************************************************************)
CollageIds == {"c1", "c2"}

\* The collage a photo row belongs to (its collage_id).
CollageOf(id) == IF id = "C" THEN "c2" ELSE "c1"

FetchCollageOps == {"fetchCollageByCode", "fetchCollageById"}

\* What the pages and callers look collages up by; K0 and c0 match no row.
Codes == {"K1", "K2", "K0"}

LookupKeys == [fetchCollageByCode |-> Codes, fetchCollageById |-> {"c1", "c0"}]

\* The id of the collages row that eq('code', code) or eq('id', id) selects.
Resolve(op, key) ==
  IF op = "fetchCollageByCode"
  THEN CASE key = "K1" -> "c1" [] key = "K2" -> "c2" [] OTHER -> NoCollage
  ELSE IF key \in CollageIds THEN key ELSE NoCollage

\* The rows the server answers fetchPhotosByCollageId(key) with.
PhotosOf(key) ==
  NewestFirst({ id \in LiveIds(StoreIds) : CollageOf(id) = key })

Stale(ts) == { [t EXCEPT !.stale = TRUE] : t \in ts }

lifeFrame == <<slotVars, lastEvent, serverRows, pendingEvents, collages,
               settingsVars, patternVars, insertCode>>

\* What the catch block of fetchCollages, fetchCollageByCode,
\* fetchCollageById and createCollage sets.
releaseOnError_KeepsLoading(message) == [error |-> message, loading |-> TRUE]

releaseOnError(message) == [error |-> message, loading |-> FALSE]

\* What fetchCollageByCode / fetchCollageById set when maybeSingle() gives
\* no row; with single() the missing row would be an error for the catch.
onNoRow_Single(op) == releaseOnError("failed")

onNoRow(op) == [error |-> "notfound", loading |-> FALSE]

\* The first lines of fetchCollageByCode / fetchCollageById, up to the
\* request for the collages row; ts are the operations already in flight.
StartFetchCollage(op, key, ts) ==
  /\ loading' = TRUE
  /\ error' = NoError
  /\ statePhotos' = <<>>
  /\ tasks' = ts \cup {Task(op, key, "collage", <<>>)}

\* fetchCollageByCode or fetchCollageById is called.
FetchCollageCalled ==
  /\ Cardinality(tasks) < MaxTasks
  /\ \E op \in FetchCollageOps : \E key \in LookupKeys[op] :
       StartFetchCollage(op, key, tasks)
  /\ UNCHANGED <<lastRefreshTime, recheckTimers, currentCollage, realtimeChannel,
                 isRealtimeConnected, pollingInterval, channels, intervals,
                 view, lastResult, lifeFrame>>

\* The answer to the request for the collages row: an error, no row, or
\* the row, after which the collage's settings are requested.
CollageAnswers ==
  /\ \E t \in tasks : \E failed \in BOOLEAN :
       /\ t.op \in FetchCollageOps /\ t.pc = "collage"
       /\ IF failed \/ Resolve(t.op, t.id) = NoCollage
          THEN /\ LET end == IF failed THEN releaseOnError("failed")
                             ELSE onNoRow(t.op)
                  IN error' = end.error /\ loading' = end.loading
               /\ currentCollage' = NoCollage
               /\ tasks' = tasks \ {t}
               /\ lastResult' = Result(t.op, "", "null", failed)
          ELSE /\ tasks' = (tasks \ {t}) \cup {[t EXCEPT !.pc = "settings"]}
               /\ UNCHANGED <<error, loading, currentCollage, lastResult>>
  /\ UNCHANGED <<statePhotos, lastRefreshTime, recheckTimers, realtimeChannel,
                 isRealtimeConnected, pollingInterval, channels, intervals,
                 view, lifeFrame>>

\* The answer to the request for the settings: the collage becomes the
\* current one and its photos are requested.
SettingsAnswers ==
  /\ \E t \in tasks : \E failed \in BOOLEAN :
       /\ t.op \in FetchCollageOps /\ t.pc = "settings"
       /\ currentCollage' = Resolve(t.op, t.id)
       /\ loading' = FALSE
       /\ error' = NoError
       /\ tasks' = (tasks \ {t}) \cup
            { IF failed THEN [t EXCEPT !.pc = "photosFailed"]
              ELSE [t EXCEPT !.pc = "photos",
                             !.data = PhotosOf(Resolve(t.op, t.id))] }
  /\ UNCHANGED <<statePhotos, lastRefreshTime, recheckTimers, realtimeChannel,
                 isRealtimeConnected, pollingInterval, channels, intervals,
                 view, lastResult, lifeFrame>>

\* The answer to the request for the photos: the rows replace the list and
\* the subscription is set up; or the error is recorded, thrown and caught,
\* and no subscription is set up.  Either way the collage is returned.
OpenPhotosAnswers ==
  /\ \E t \in tasks :
       /\ t.op \in FetchCollageOps /\ t.pc \in {"photos", "photosFailed"}
       /\ tasks' = tasks \ {t}
       /\ IF t.pc = "photosFailed"
          THEN /\ error' = "failed"
               /\ lastResult' = Result(t.op, "", "returned", TRUE)
               /\ UNCHANGED <<statePhotos, lastRefreshTime, realtimeChannel,
                              isRealtimeConnected, pollingInterval, channels,
                              intervals, view>>
          ELSE /\ statePhotos' = t.data
               /\ lastRefreshTime' = Now
               /\ SetEngine(setupRealtimeSubscription(Engine, Resolve(t.op, t.id)))
               /\ view' = [view EXCEPT !.cleanedUp = FALSE]
               /\ lastResult' = Result(t.op, "", "returned", FALSE)
               /\ UNCHANGED error
  /\ UNCHANGED <<recheckTimers, currentCollage, loading, lifeFrame>>

\* A subscribed channel calls the status callback.
ChannelStatus ==
  /\ \E name \in Subscribed(channels) : \E status \in Statuses :
       /\ SetEngine(onStatus(Engine, name, status))
       /\ lastResult' = Result("statusCallback", "",
                               IF status = "SUBSCRIBED" THEN "connected" ELSE "dropped",
                               FALSE)
  /\ UNCHANGED <<statePhotos, lastRefreshTime, recheckTimers, currentCollage,
                 loading, error, view, tasks, lifeFrame>>

\* A joined channel delivers an event of its collage to the
\* postgres_changes handler.
ChannelDelivers ==
  /\ \E name \in Subscribed(channels) :
     \E type \in {"INSERT", "DELETE", "UPDATE"} : \E id \in {"A", "C"} :
       /\ channels[name].joined
       /\ channels[name].filter = CollageOf(id)
       /\ IF type = "DELETE"
          THEN serverRows[id] = "gone" /\ recheckTimers[id] < MaxPending
          ELSE serverRows[id] # "new"
       /\ SetStore(onPostgresChange(Store, type, Row(id)))
       /\ recheckTimers' = IF type = "DELETE"
                           THEN [recheckTimers EXCEPT ![id] = @ + 1]
                           ELSE recheckTimers
  /\ UNCHANGED <<currentCollage, loading, error, realtimeChannel,
                 isRealtimeConnected, pollingInterval, channels, intervals,
                 view, tasks, lastResult, lifeFrame>>

\* The re-check a DELETE event scheduled runs.
DelayedRecheckFires ==
  /\ \E id \in StoreIds :
       /\ recheckTimers[id] > 0
       /\ recheckTimers' = [recheckTimers EXCEPT ![id] = @ - 1]
       /\ SetStore(recheckDeleted(Store, id))
  /\ UNCHANGED <<currentCollage, loading, error, realtimeChannel,
                 isRealtimeConnected, pollingInterval, channels, intervals,
                 view, tasks, lastResult, lifeFrame>>

\* refreshPhotos(key) asks the server for the photos of a collage.
StartRefresh(key) ==
  /\ Cardinality(tasks) < MaxTasks
  /\ \E failed \in BOOLEAN :
       tasks' = tasks \cup
         { IF failed THEN Task("refreshPhotos", key, "failed", <<>>)
           ELSE Task("refreshPhotos", key, "answered", PhotosOf(key)) }

\* The polling timer ticks.
PollTick ==
  /\ \E name \in InUse(intervals) : StartRefresh(intervals[name])
  /\ UNCHANGED <<statePhotos, lastRefreshTime, recheckTimers, currentCollage,
                 loading, error, realtimeChannel, isRealtimeConnected,
                 pollingInterval, channels, intervals, view, lastResult, lifeFrame>>

\* refreshPhotos gets its answer: the rows replace the list, or the error
\* is recorded by fetchPhotosByCollageId and swallowed by refreshPhotos.
RefreshEnds ==
  /\ \E t \in tasks :
       /\ t.op = "refreshPhotos"
       /\ tasks' = tasks \ {t}
       /\ lastResult' = Result("refreshPhotos", "", "returned", t.pc = "failed")
       /\ IF t.pc = "failed"
          THEN /\ error' = "failed"
               /\ UNCHANGED <<statePhotos, lastRefreshTime>>
          ELSE /\ statePhotos' = t.data
               /\ lastRefreshTime' = Now
               /\ UNCHANGED error
  /\ UNCHANGED <<recheckTimers, currentCollage, loading, realtimeChannel,
                 isRealtimeConnected, pollingInterval, channels, intervals,
                 view, lifeFrame>>

\* What the ghost records of a setupRealtimeSubscription call: whether the
\* store held a channel, which the call replaced.
SetupResult(key) ==
  Result("setupRealtimeSubscription", "",
         IF realtimeChannel # 0 THEN "replaced" ELSE "opened", FALSE)

\* CollageViewerPage mounts with a code in the URL: its effect calls
\* fetchCollageByCode.
ViewerMounts ==
  /\ view.page = "none"
  /\ Cardinality(tasks) < MaxTasks
  /\ \E code \in Codes :
       /\ view' = [view EXCEPT !.page = "viewer", !.code = code]
       /\ StartFetchCollage("fetchCollageByCode", code, tasks)
  /\ UNCHANGED <<lastRefreshTime, recheckTimers, currentCollage, realtimeChannel,
                 isRealtimeConnected, pollingInterval, channels, intervals,
                 lastResult, lifeFrame>>

\* PhotoboothPage mounts with a code in the URL: its effect calls
\* fetchCollageByCode and then setupRealtimeSubscription with the code.
BoothMounts ==
  /\ view.page = "none"
  /\ Cardinality(tasks) < MaxTasks
  /\ \E code \in Codes :
       /\ view' = [view EXCEPT !.page = "booth", !.code = code, !.cleanedUp = FALSE]
       /\ StartFetchCollage("fetchCollageByCode", code, tasks)
       /\ SetEngine(setupRealtimeSubscription(Engine, code))
       /\ lastResult' = SetupResult(code)
  /\ UNCHANGED <<lastRefreshTime, recheckTimers, currentCollage, lifeFrame>>

\* The page unmounts, or the code in its URL changes: the effect's cleanup
\* calls cleanupRealtimeSubscription.  What is in flight stays in flight.
Leaves ==
  /\ view.page # "none"
  /\ view' = [view EXCEPT !.page = "none", !.code = "", !.cleanedUp = TRUE]
  /\ SetEngine(cleanupRealtimeSubscription(Engine))
  /\ tasks' = Stale(tasks)
  /\ UNCHANGED <<statePhotos, lastRefreshTime, recheckTimers, currentCollage,
                 loading, error, lastResult, lifeFrame>>

\* CollageViewerPage finds a collage loaded and the store not connected, in
\* its effect or in its 10-second check, and sets the subscription up.
ViewerResubscribes ==
  /\ view.page = "viewer"
  /\ currentCollage # NoCollage
  /\ ~isRealtimeConnected
  /\ SetEngine(setupRealtimeSubscription(Engine, currentCollage))
  /\ view' = [view EXCEPT !.cleanedUp = FALSE]
  /\ lastResult' = SetupResult(currentCollage)
  /\ UNCHANGED <<statePhotos, lastRefreshTime, recheckTimers, currentCollage,
                 loading, error, tasks, lifeFrame>>

\* handleForceReconnect: cleanup now, setup one second later.
ForceReconnect ==
  /\ view.page = "viewer"
  /\ currentCollage # NoCollage
  /\ SetEngine(cleanupRealtimeSubscription(Engine))
  /\ view' = [view EXCEPT !.reconnects = @ \cup {currentCollage}, !.cleanedUp = TRUE]
  /\ UNCHANGED <<statePhotos, lastRefreshTime, recheckTimers, currentCollage,
                 loading, error, tasks, lastResult, lifeFrame>>

\* The timer of handleForceReconnect runs, whether its page is still
\* mounted or not.
ReconnectTimerFires ==
  /\ \E id \in view.reconnects :
       /\ SetEngine(setupRealtimeSubscription(Engine, id))
       /\ view' = [view EXCEPT !.reconnects = @ \ {id}, !.cleanedUp = FALSE]
       /\ lastResult' = SetupResult(id)
  /\ UNCHANGED <<statePhotos, lastRefreshTime, recheckTimers, currentCollage,
                 loading, error, tasks, lifeFrame>>

\* handleManualRefresh: refreshPhotos of the current collage.
ManualRefresh ==
  /\ view.page = "viewer"
  /\ currentCollage # NoCollage
  /\ StartRefresh(currentCollage)
  /\ UNCHANGED <<statePhotos, lastRefreshTime, recheckTimers, currentCollage,
                 loading, error, realtimeChannel, isRealtimeConnected,
                 pollingInterval, channels, intervals, view, lastResult, lifeFrame>>

\* Another client (a moderator in another browser) deletes a photo's row.
OtherClientDeletes ==
  /\ \E id \in StoreIds :
       /\ serverRows[id] = "live"
       /\ serverRows' = [serverRows EXCEPT ![id] = "gone"]
  /\ UNCHANGED <<slotVars, storeVars, collageVars, channels, intervals, view,
                 pendingEvents, tasks, lastResult, settingsVars, patternVars, insertCode>>

\* No collage is open; the server holds photo A of collage c1 and photo C
\* of collage c2.
LifeInit ==
  /\ SlotParked
  /\ StoreStart
  /\ currentCollage = NoCollage
  /\ loading = FALSE
  /\ error = NoError
  /\ collages = <<>>
  /\ realtimeChannel = 0
  /\ isRealtimeConnected = FALSE
  /\ pollingInterval = 0
  /\ channels = [c \in ChannelNames |-> Closed]
  /\ intervals = [t \in IntervalNames |-> Free]
  /\ view = NoView
  /\ serverRows = [id \in StoreIds |-> IF id = "B" THEN "new" ELSE "live"]
  /\ pendingEvents = {}
  /\ tasks = {}
  /\ lastResult = [op |-> "none"]
  /\ SettingsParked
  /\ PatternParked
  /\ insertCode = NoCode

LifeNext ==
  \/ ViewerMounts
  \/ BoothMounts
  \/ Leaves
  \/ ViewerResubscribes
  \/ ForceReconnect
  \/ ReconnectTimerFires
  \/ ManualRefresh
  \/ CollageAnswers
  \/ SettingsAnswers
  \/ OpenPhotosAnswers
  \/ ChannelStatus
  \/ ChannelDelivers
  \/ OtherClientDeletes
  \/ DelayedRecheckFires
  \/ PollTick
  \/ RefreshEnds

LifeSpec == LifeInit /\ [][LifeNext]_vars

(***************************************************************************)
(* Properties of subscription, polling and the opening of a collage.        *)
(***************************************************************************)
\* A polling timer runs and it is the one the store holds.
PollingActive(e) ==
  /\ e.pollingInterval # 0
  /\ InUse(e.intervals) = {e.pollingInterval}

\* No polling timer runs and the store holds none.
PollingInactive(e) ==
  /\ e.pollingInterval = 0
  /\ InUse(e.intervals) = {}

\* C22 as stated: the step in which a refreshPhotos call (a polling tick's
\* re-fetch) learns that its request failed, and the step in which a channel
\* reports a status other than SUBSCRIBED, leave the store's error field as
\* it was.
C22_BackgroundFailuresKeepError ==
  [][ ( \/ \E t \in tasks \ tasks' : t.op = "refreshPhotos" /\ t.pc = "failed"
        \/ /\ lastResult' # lastResult
           /\ lastResult'.op = "statusCallback"
           /\ lastResult'.outcome = "dropped" )
      => error' = error ]_vars

\* C12: whatever the state the status callback of a subscribed channel is
\* called in, it leaves the connected flag true and polling inactive when
\* the status is SUBSCRIBED, the flag false and one polling timer active
\* when it is any other status; and a subscription set up while polling is
\* inactive, then reported SUBSCRIBED, dropped (CHANNEL_ERROR, CLOSED or
\* TIMED_OUT) and SUBSCRIBED again, has polling inactive, inactive, active
\* during the drop and inactive after it.
C12_StatusDrivesPolling ==
  /\ \A name \in Subscribed(channels) : \A status \in Statuses :
       LET after == onStatus(Engine, name, status)
       IN IF status = "SUBSCRIBED"
          THEN after.isRealtimeConnected /\ PollingInactive(after)
          ELSE ~after.isRealtimeConnected /\ PollingActive(after)
  /\ PollingInactive(Engine) =>
       \A key \in CollageIds : \A dropped \in Statuses \ {"SUBSCRIBED"} :
          LET connecting == setupRealtimeSubscription(Engine, key)
              name == connecting.realtimeChannel
              subscribed == onStatus(connecting, name, "SUBSCRIBED")
              down == onStatus(subscribed, name, dropped)
              recovered == onStatus(down, name, "SUBSCRIBED")
          IN /\ PollingInactive(connecting)
             /\ PollingInactive(subscribed) /\ subscribed.isRealtimeConnected
             /\ PollingActive(down) /\ ~down.isRealtimeConnected
             /\ PollingInactive(recovered) /\ recovered.isRealtimeConnected

\* The status callback has just reported SUBSCRIBED to a store that was
\* polling: the channel is joined, the flag is set and no timer runs.
C12_Witness ==
  /\ lastResult.op = "statusCallback"
  /\ lastResult.outcome = "connected"
  /\ isRealtimeConnected
  /\ PollingInactive(Engine)
  /\ \E name \in Subscribed(channels) : channels[name].joined

\* C13: at most one change-feed channel opened by setupRealtimeSubscription
\* is subscribed at any time, and it is the one the store holds, whatever
\* the page effects, the periodic re-subscribe check, forced reconnects and
\* the subscription at the end of a collage fetch do.
C13_AtMostOneChannel ==
  /\ Cardinality(Subscribed(channels)) <= 1
  /\ Subscribed(channels) \subseteq {realtimeChannel}

\* setupRealtimeSubscription has just replaced a channel the store held:
\* the old one is unsubscribed and the new one is the only one.
C13_Witness ==
  /\ lastResult.op = "setupRealtimeSubscription"
  /\ lastResult.outcome = "replaced"
  /\ Subscribed(channels) = {realtimeChannel}

\* The fields of the store a page renders from.
shown == <<statePhotos, currentCollage, error, isRealtimeConnected>>

\* C14 as stated: from a cleanupRealtimeSubscription until the next
\* setupRealtimeSubscription no channel is subscribed and no polling timer
\* runs, and no step other than the answer to a request still in flight (so
\* no feed event, status callback, delayed re-check or polling tick) changes
\* what the store shows.
C14_QuietAfterCleanup ==
  /\ [](view.cleanedUp => Subscribed(channels) = {} /\ InUse(intervals) = {})
  /\ [][(view.cleanedUp /\ view'.cleanedUp /\ tasks' = tasks)
          => UNCHANGED shown]_vars

\* C15 as stated: the answer to a request of fetchCollageByCode,
\* fetchCollageById or a photo re-fetch that was in flight when the view was
\* left changes neither photos nor currentCollage and opens no subscription.
C15_StaleAnswersIgnored ==
  [][(\E t \in tasks : t.stale /\ t \notin tasks')
      => UNCHANGED <<statePhotos, currentCollage, channels, realtimeChannel>>]_vars

\* C16 as stated: whenever a collage is the current one, every photo in the
\* list is a photo of that collage, and every subscribed channel and every
\* running polling timer is scoped to that collage's id.
C16_OneCollageAtATime ==
  currentCollage # NoCollage =>
    /\ \A i \in 1..Len(statePhotos) : CollageOf(statePhotos[i].id) = currentCollage
    /\ \A name \in Subscribed(channels) : channels[name].filter = currentCollage
    /\ \A name \in InUse(intervals) : intervals[name] = currentCollage

(***************************************************************************)
(* The asynchronous operations of the store, called one after another or    *)
(* together, each request answered with rows, with no row or with an error, *)
(* while the change feed delivers nothing.                                  *)
(***************************************************************************)
MAX_ATTEMPTS == 5

UpdateOps == {"updateCollageSettings", "updateCollageName"}

\* The operations that raise the loading flag.
LoadingOps == FetchCollageOps \cup {"fetchCollages", "createCollage"}

\* The collages the server answers fetchCollages with, newest first.
CollageList == <<"c2", "c1">>

opsFrame == <<slotVars, storeVars, currentCollage, realtimeChannel,
              isRealtimeConnected, pollingInterval, channels, intervals, view,
              serverRows, pendingEvents, settingsVars, patternVars, insertCode>>

\* fetchCollages is called.
FetchCollagesStarts ==
  /\ Cardinality(tasks) < MaxTasks
  /\ loading' = TRUE
  /\ error' = NoError
  /\ tasks' = tasks \cup {Task("fetchCollages", "", "select", <<>>)}
  /\ UNCHANGED <<collages, lastResult, opsFrame>>

\* fetchCollages gets its answer: the rows become the list of collages, or
\* the error is caught and recorded.
FetchCollagesEnds ==
  /\ \E t \in tasks : \E failed \in BOOLEAN :
       /\ t.op = "fetchCollages"
       /\ tasks' = tasks \ {t}
       /\ lastResult' = Result("fetchCollages", "", "returned", failed)
       /\ IF failed
          THEN /\ error' = releaseOnError("failed").error
               /\ loading' = releaseOnError("failed").loading
               /\ UNCHANGED collages
          ELSE /\ collages' = CollageList
               /\ loading' = FALSE
               /\ UNCHANGED error
  /\ UNCHANGED opsFrame

\* The characters generateCode draws from.
chars == <<"0", "1", "2", "3", "4", "5", "6", "7", "8", "9", "A", "B", "C",
           "D", "E", "F", "G", "H", "I", "J", "K", "L", "M", "N", "O", "P",
           "Q", "R", "S", "T", "U", "V", "W", "X", "Y", "Z">>

\* String.prototype.charAt: the empty string outside the string.
charAt(str, index) ==
  IF 0 <= index /\ index < Len(str) THEN str[index + 1] ELSE ""

\* The values of Math.floor(Math.random() * chars.length) the model draws:
\* the first digit, the first letter and the last letter.
RandomDraws == {0, 10, Len(chars) - 1}

\* generateCode(), given the four values Math.random() leads to.
generateCode(draws) == [i \in 1..4 |-> charAt(chars, draws[i])]

\* The codes generateCode() returns for draws of the set given.
CodesFrom(draws) == { generateCode(d) : d \in [1..4 -> draws] }

\* Mutant: the loop goes on while attempts <= MAX_ATTEMPTS.
afterInsert_OneMore(attempts, answer) ==
  IF answer = "23505" /\ attempts <= MAX_ATTEMPTS THEN "retry"
  ELSE IF answer = "row" THEN "settings"
  ELSE "caught"

\* What createCollage does with the answer to its insert: the while loop
\* inserts again with another code, `if (collageError) throw collageError`
\* hands the error to the catch block, or the settings are asked for.
afterInsert(attempts, answer) ==
  IF answer = "23505" /\ attempts < MAX_ATTEMPTS THEN "retry"
  ELSE IF answer = "row" THEN "settings"
  ELSE "caught"

InsertAnswers == {"row", "23505", "error"}

createFrame == <<slotVars, storeVars, currentCollage, realtimeChannel,
                 isRealtimeConnected, pollingInterval, channels, intervals, view,
                 serverRows, pendingEvents, settingsVars, patternVars>>

\* createCollage is called: it generates a code and sends the insert.  The
\* task's data holds one entry per insert sent (their number is attempts).
\* One call is followed at a time: insertCode is the code of that call.
CreateCollageCalled(draws) ==
  /\ Cardinality(tasks) < MaxTasks
  /\ \A t \in tasks : t.op # "createCollage"
  /\ Len(collages) < MaxLen
  /\ loading' = TRUE
  /\ error' = NoError
  /\ insertCode' \in CodesFrom(draws)
  /\ tasks' = tasks \cup {Task("createCollage", "", "insert", <<Row("")>>)}
  /\ UNCHANGED <<collages, lastResult, createFrame>>

\* The answer to an insert: the row, after which the settings are asked
\* for; a unique violation (23505), after which another code is tried while
\* attempts < MAX_ATTEMPTS; or an error, which is caught and recorded.
CreateCollageInsertAnswered(draws) ==
  /\ \E t \in tasks : \E answer \in InsertAnswers :
       /\ t.op = "createCollage" /\ t.pc = "insert"
       /\ CASE afterInsert(Len(t.data), answer) = "settings" ->
                 /\ tasks' = (tasks \ {t}) \cup {[t EXCEPT !.pc = "settings"]}
                 /\ UNCHANGED <<error, loading, lastResult, insertCode>>
            [] afterInsert(Len(t.data), answer) = "retry" ->
                 /\ insertCode' \in CodesFrom(draws)
                 /\ tasks' = (tasks \ {t}) \cup
                              {[t EXCEPT !.data = Append(@, Row(""))]}
                 /\ UNCHANGED <<error, loading, lastResult>>
            [] OTHER ->
                 /\ tasks' = tasks \ {t}
                 /\ error' = releaseOnError(IF answer = "23505" THEN "nocode"
                                            ELSE "failed").error
                 /\ loading' = releaseOnError("failed").loading
                 /\ lastResult' = Result("createCollage", "", "null", TRUE)
                 /\ insertCode' = NoCode
  /\ UNCHANGED <<collages, createFrame>>

\* createCollage as the operations' specification runs it: every draw of
\* Math.random() is 0.
CreateCollageStarts == CreateCollageCalled({0})

CreateCollageInsertAnswers == CreateCollageInsertAnswered({0})

\* The answer to the request for the new collage's settings, used if there
\* and replaced by the defaults if not: the collage is put first in the list
\* and returned.
CreateCollageEnds ==
  /\ \E t \in tasks :
       /\ t.op = "createCollage" /\ t.pc = "settings"
       /\ Len(collages) < MaxLen
       /\ tasks' = tasks \ {t}
       /\ collages' = <<"created">> \o collages
       /\ loading' = FALSE
       /\ lastResult' = Result("createCollage", "", "returned", FALSE)
       /\ insertCode' = NoCode
  /\ UNCHANGED <<error, createFrame>>

\* updateCollageSettings or updateCollageName is called:
\* updateCollageSettings throws when no collage is the current one, else the
\* update is sent.
UpdateStarts ==
  /\ Cardinality(tasks) < MaxTasks
  /\ \E op \in UpdateOps :
       IF op = "updateCollageSettings" /\ currentCollage = NoCollage
       THEN /\ lastResult' = Result(op, "", "thrown", TRUE)
            /\ UNCHANGED tasks
       ELSE /\ tasks' = tasks \cup {Task(op, "", "update", <<>>)}
            /\ UNCHANGED lastResult
  /\ UNCHANGED <<loading, error, collages, opsFrame>>

\* The answer to the update: the error is logged and thrown again, or the
\* settings or the name are put in the current collage, which stays the
\* current one.
UpdateEnds ==
  /\ \E t \in tasks : \E failed \in BOOLEAN :
       /\ t.op \in UpdateOps
       /\ tasks' = tasks \ {t}
       /\ lastResult' = Result(t.op, "", IF failed THEN "thrown" ELSE "returned",
                               failed)
  /\ UNCHANGED <<loading, error, collages, opsFrame>>

\* Collage c1 is open and subscribed; its photos table is empty.
OpsInit == FeedInit

OpsNext ==
  \/ FetchCollagesStarts
  \/ FetchCollagesEnds
  \/ FetchCollageCalled
  \/ CollageAnswers
  \/ SettingsAnswers
  \/ OpenPhotosAnswers
  \/ CreateCollageStarts
  \/ CreateCollageInsertAnswers
  \/ CreateCollageEnds
  \/ UpdateStarts
  \/ UpdateEnds
  \/ FetchPhotosStarts
  \/ FetchPhotosEnds
  \/ UploadPhotoStarts
  \/ UploadPhotoServerInserts
  \/ UploadPhotoEnds
  \/ DeletePhotoStarts
  \/ DeletePhotoSelects
  \/ DeletePhotoServerDeletes
  \/ DeletePhotoEnds

OpsSpec == OpsInit /\ [][OpsNext]_vars

(***************************************************************************)
(* Properties of the operations' endings.                                   *)
(***************************************************************************)
\* C18: when fetchCollageByCode or fetchCollageById gets no row for its code
\* or id from a request that did not fail, it returns null without
\* throwing, with currentCollage null, loading false and the error field
\* holding the 'no collage found' message, and it opens no subscription.
C18_NoRowIsNotFound ==
  [][\A t \in tasks :
       ( /\ t.op \in FetchCollageOps /\ t.pc = "collage"
         /\ Resolve(t.op, t.id) = NoCollage
         /\ t \notin tasks'
         /\ lastResult'.op = t.op /\ ~lastResult'.failed )
       => /\ lastResult'.outcome = "null"
          /\ currentCollage' = NoCollage
          /\ ~loading'
          /\ error' = "notfound"
          /\ UNCHANGED <<channels, realtimeChannel, isRealtimeConnected>>]_vars

\* fetchCollageById has returned null for an id that matches no row, while
\* the channel of the collage opened before is still the store's.
C18_Witness ==
  /\ lastResult = Result("fetchCollageById", "", "null", FALSE)
  /\ tasks = {}
  /\ currentCollage = NoCollage
  /\ ~loading
  /\ error = "notfound"
  /\ realtimeChannel = 1

\* C19 as stated: an operation that ends because a request of its failed
\* (or, for uploadPhoto, because the file is refused) does not throw and
\* leaves a message in the error field.
C19_FailuresRecorded ==
  [][(lastResult' # lastResult /\ lastResult'.failed)
      => (lastResult'.outcome # "thrown" /\ error' # NoError)]_vars

\* C20: whenever none of fetchCollages, fetchCollageByCode, fetchCollageById
\* and createCollage is in flight, loading is false, whichever way the ones
\* called before ended.
C20_LoadingReleased ==
  (\A t \in tasks : t.op \notin LoadingOps) => ~loading

\* createCollage has given up after MAX_ATTEMPTS unique violations: the
\* error is recorded and loading is false again.
C20_Witness ==
  /\ lastResult = Result("createCollage", "", "null", TRUE)
  /\ error = "nocode"
  /\ \A t \in tasks : t.op \notin LoadingOps
  /\ ~loading

(***************************************************************************)
(* createCollage on its own, with codes drawn from RandomDraws.  Every     *)
(* request is answered: each insert and the settings query resolve.        *)
(***************************************************************************)
DashboardCreates == CreateCollageCalled(RandomDraws)

CreateInsertAnswers == CreateCollageInsertAnswered(RandomDraws)

CreateInit == StoreInit

CreateNext ==
  \/ DashboardCreates
  \/ CreateInsertAnswers
  \/ CreateCollageEnds

CreateSpec ==
  /\ CreateInit
  /\ [][CreateNext]_vars
  /\ WF_vars(CreateInsertAnswers)
  /\ WF_vars(CreateCollageEnds)

\* The createCollage calls in flight.
Creating == { t \in tasks : t.op = "createCollage" }

\* C23: the code of every insert createCollage sends has 4 characters, each
\* one of 0-9 and A-Z; it sends at most MAX_ATTEMPTS inserts, another one
\* only after a uniqueness violation (23505) and with a newly generated
\* code; any other error, and the violation that answers the last insert,
\* end the call, which then returns null with the error field set, loading
\* false and the collages list as it was; and every call ends.
C23_CreateCollageRetries ==
  /\ [](\A t \in Creating :
          /\ Len(insertCode) = 4
          /\ \A i \in 1..4 : insertCode[i] \in Range(chars)
          /\ Len(t.data) \in 1..MAX_ATTEMPTS
          /\ \A answer \in InsertAnswers :
               afterInsert(Len(t.data), answer) = "retry"
                 <=> (answer = "23505" /\ Len(t.data) < MAX_ATTEMPTS))
  /\ [][\A t \in Creating :
          /\ t \notin tasks' =>
               \/ \E u \in tasks' \ tasks :
                     /\ u.op = "createCollage"
                     /\ \/ u.pc = "insert" /\ Len(u.data) = Len(t.data) + 1
                        \/ u.pc = "settings" /\ u.data = t.data
                     /\ UNCHANGED <<error, loading, collages>>
               \/ /\ tasks' = tasks \ {t}
                  /\ lastResult' = Result("createCollage", "", "null", TRUE)
                  /\ error' # NoError /\ loading' = FALSE
                  /\ collages' = collages
                  /\ error' = "nocode" => Len(t.data) = MAX_ATTEMPTS
               \/ /\ tasks' = tasks \ {t}
                  /\ t.pc = "settings"
                  /\ lastResult' = Result("createCollage", "", "returned", FALSE)
    ]_vars
  /\ (Creating # {}) ~> (Creating = {})

\* createCollage has given up after MAX_ATTEMPTS inserts while the list
\* held a collage.
C23_Witness ==
  /\ lastResult = Result("createCollage", "", "null", TRUE)
  /\ error = "nocode"
  /\ ~loading
  /\ tasks = {}
  /\ collages # <<>>

(***************************************************************************)
(* updateCollageSettings: the partial document is merged into the current   *)
(* collage's settings, the merged document is sent to the server, and on    *)
(* the server's answer it becomes the current collage's settings.           *)
(***************************************************************************)
\* Most updateCollageSettings calls made in one behaviour.
MaxUpdates == 2

InFlight(c) == c.pc \in {"update", "saved", "failed"}

\* What set((state) => ...) makes of the local settings when the answer to
\* call c arrives.
onUpdateAnswer_Optimistic(local, c) == c.merged

onUpdateAnswer(local, c) == IF c.pc = "saved" THEN c.merged ELSE local

settingsFrame == <<slotVars, storeVars, collageVars, channels, intervals, view,
                   serverRows, pendingEvents, tasks, patternVars, insertCode>>

\* updateCollageSettings(collageId, partial) is called while a collage is
\* open: mergedSettings is computed from the settings the store holds now
\* and sent.  base and overlaps are kept for the record only.
UpdateSettingsCalled(partials, limit) ==
  /\ currentCollage # NoCollage
  /\ Cardinality(settingsCalls) < limit
  /\ \E partial \in partials :
       settingsCalls' = settingsCalls \cup
         {[partial |-> partial, base |-> settings,
           merged |-> deepMerge(settings, partial), pc |-> "update",
           overlaps |-> (\E c \in settingsCalls : InFlight(c))]}
  /\ UNCHANGED <<settings, savedSettings, lastResult, settingsFrame>>

\* The server runs the update of a call: the merged document replaces the
\* stored one, or the update fails.
ServerUpdatesSettings ==
  /\ \E c \in settingsCalls : \E failed \in BOOLEAN :
       /\ c.pc = "update"
       /\ settingsCalls' = (settingsCalls \ {c}) \cup
            {[c EXCEPT !.pc = IF failed THEN "failed" ELSE "saved"]}
       /\ savedSettings' = IF failed THEN savedSettings ELSE c.merged
  /\ UNCHANGED <<settings, lastResult, settingsFrame>>

\* The answer reaches updateCollageSettings: it puts mergedSettings in the
\* current collage and returns, or it logs the error and throws it again.
UpdateSettingsEnds ==
  /\ \E c \in settingsCalls :
       /\ c.pc \in {"saved", "failed"}
       /\ settings' = onUpdateAnswer(settings, c)
       /\ settingsCalls' = (settingsCalls \ {c}) \cup
            {[c EXCEPT !.pc = IF c.pc = "saved" THEN "returned" ELSE "thrown"]}
       /\ lastResult' = Result("updateCollageSettings", "",
                               IF c.pc = "saved" THEN "returned" ELSE "thrown",
                               c.pc = "failed")
  /\ UNCHANGED <<savedSettings, settingsFrame>>

\* One call on any document with any partial document.
MergeCalled == UpdateSettingsCalled(Docs, 1)

MergeInit ==
  /\ SlotParked
  /\ statePhotos = <<>>
  /\ lastRefreshTime = 0
  /\ recheckTimers = [id \in StoreIds |-> 0]
  /\ lastEvent = [type |-> "none"]
  /\ OpenCollage
  /\ settings \in Docs
  /\ savedSettings = settings
  /\ settingsCalls = {}

MergeNext ==
  \/ MergeCalled
  \/ ServerUpdatesSettings
  \/ UpdateSettingsEnds

MergeSpec == MergeInit /\ [][MergeNext]_vars

(***************************************************************************)
(* Properties of deepMerge and updateCollageSettings.                       *)
(***************************************************************************)
\* Every key given in partial has partial's value in merged, at the top and
\* inside a nested document, and the nested keys partial does not give keep
\* the value they have in base.
PartialWins(merged, base, partial) ==
  \A k \in DOMAIN partial :
    IF partial[k].kind # "obj" THEN merged[k] = partial[k]
    ELSE /\ merged[k].kind = "obj"
         /\ \A j \in DOMAIN partial[k].v : merged[k].v[j] = partial[k].v[j]
         /\ (k \in DOMAIN base /\ base[k].kind = "obj") =>
              \A j \in DOMAIN base[k].v \ DOMAIN partial[k].v :
                 merged[k].v[j] = base[k].v[j]

\* Every key of base that partial does not give keeps base's value.
BaseKept(merged, base, partial) ==
  \A k \in DOMAIN base \ DOMAIN partial : merged[k] = base[k]

\* C24: the document updateCollageSettings computes from the settings the
\* store holds and a partial document has partial's value at every key
\* partial gives, at any depth, base's value at every other key (so the
\* siblings of an overridden nested key are kept), and partial's arrays
\* whole; {a:{b:2}} merged onto {a:{b:1,c:3}} is {a:{b:2,c:3}}; and that
\* document is what the server stores and what the store then holds.
C24_DeepMerge ==
  /\ deepMerge(Baseline, PartialB) = Overridden
  /\ \A c \in settingsCalls :
       /\ PartialWins(c.merged, c.base, c.partial)
       /\ BaseKept(c.merged, c.base, c.partial)
       /\ c.pc = "saved" => savedSettings = c.merged
       /\ c.pc = "returned" => savedSettings = c.merged /\ settings = c.merged

\* updateCollageSettings has returned after merging a partial document that
\* overrides a nested key, replaces an array and leaves a sibling alone.
C24_Witness ==
  \E c \in settingsCalls :
    /\ c.pc = "returned"
    /\ DOMAIN c.base = {"a", "d"}
    /\ c.base["a"] = Baseline["a"]
    /\ c.base["d"] = Arr(<<1, 2>>)
    /\ c.partial = [k \in {"a", "d"} |-> IF k = "a" THEN PartialB["a"] ELSE Arr(<<3>>)]
    /\ settings = [k \in {"a", "d"} |-> IF k = "a" THEN Overridden["a"] ELSE Arr(<<3>>)]
    /\ savedSettings = settings

(***************************************************************************)
(* Editing an open collage: photos are uploaded and deleted and the         *)
(* settings are updated, by calls that may overlap.                         *)
(***************************************************************************)
\* The partial documents the settings panel sends.
EditPartials == {PartialB, PartialC, PartialD}

EditCalled == UpdateSettingsCalled(EditPartials, MaxUpdates)

EditNext ==
  \/ EditCalled
  \/ ServerUpdatesSettings
  \/ UpdateSettingsEnds
  \/ UploadPhotoStarts
  \/ UploadPhotoServerInserts
  \/ UploadPhotoEnds
  \/ DeletePhotoStarts
  \/ DeletePhotoSelects
  \/ DeletePhotoServerDeletes
  \/ DeletePhotoEnds

EditSpec == FeedInit /\ [][EditNext]_vars

\* The keys a partial document gives a value to, as paths.
Touched(partial) ==
  UNION { IF partial[k].kind = "obj"
          THEN { <<k, j>> : j \in DOMAIN partial[k].v }
          ELSE { <<k>> } : k \in DOMAIN partial }

\* C21: no step of uploadPhoto, deletePhoto or updateCollageSettings other
\* than the last step of a call that succeeds changes the photo list or the
\* current collage's settings; so after a call that failed, at validation,
\* at the storage upload, at the insert, at the select or the delete of the
\* row, or at the update, both are what they were before the call.
C21_FailureLeavesState ==
  [][ \/ \E t \in tasks \ tasks' : t.pc \in {"inserted", "deleted"}
      \/ \E c \in settingsCalls \ settingsCalls' : c.pc = "saved"
      \/ UNCHANGED <<statePhotos, settings>> ]_vars

\* updateCollageSettings has thrown after a failed update whose merged
\* document differs from the settings, with a photo in the list.
C21_Witness ==
  /\ lastResult = Result("updateCollageSettings", "", "thrown", TRUE)
  /\ \E c \in settingsCalls : c.pc = "thrown" /\ c.merged # c.base /\ c.base = settings
  /\ Len(statePhotos) > 0

\* C30 as stated: when two updateCollageSettings calls that overlapped and
\* gave values to different keys have both returned, the settings the store
\* holds have both changes and are the document the server holds.
C30_BothUpdatesTakeEffect ==
  \A c1, c2 \in settingsCalls :
    ( /\ c1.pc = "returned" /\ c2.pc = "returned"
      /\ ~c1.overlaps /\ c2.overlaps
      /\ Touched(c1.partial) \cap Touched(c2.partial) = {}
      /\ \A c \in settingsCalls : ~InFlight(c) )
    => /\ settings = deepMerge(deepMerge(c1.base, c1.partial), c2.partial)
       /\ settings = savedSettings

(***************************************************************************)
(* The pattern generators.  Sines, cosines and the other real arithmetic   *)
(* are kept as terms: a coordinate is recorded by the values it is         *)
(* computed from.                                                          *)
(***************************************************************************)
\* The ceiling every generator puts on its photo count.
MAX_PHOTOS == 500

Max(a, b) == IF a > b THEN a ELSE b

\* settings.patterns?.<pattern>?.photoCount is undefined, or a number.
Undefined == [defined |-> FALSE, value |-> 0]

Defined(n) == [defined |-> TRUE, value |-> n]

\* The settings a generator is handed: photoCount, the pattern's own
\* photoCount and floorSize (0 stands for a floor size that is not set).
RenderSettings ==
  [ photoCount : {0, MAX_PHOTOS + 1},
    patternPhotoCount : {Undefined, Defined(2)},
    floorSize : {0, 100} ]

\* The simulation times a frame is asked for.
Times == {1}

\* photoCount as each generator reads it: the pattern's own if defined.
photoCountOf(s) ==
  IF s.patternPhotoCount.defined THEN s.patternPhotoCount.value ELSE s.photoCount

\* const totalPhotos = Math.min(photoCount, 500)
totalPhotosOf(s) == Min(photoCountOf(s), MAX_PHOTOS)

\* this.settings.floorSize || 200
floorSizeOf(s) == IF s.floorSize = 0 THEN 200 ELSE s.floorSize

\* One entry of the positions generateDynamicBasePositions builds: x and z
\* come from the slot index and half the floor size, phaseOffset is
\* (i * 0.211) % 1, kept in thousandths.
BasePosition(i, floorSize) ==
  [ x |-> <<i, floorSize>>, z |-> <<i, floorSize>>,
    phaseOffset |-> (i * 211) % 1000 ]

\* Mutant: the cache key leaves the floor size out.
cacheKey_SlotsOnly(floorSize, maxSlots) == <<0, maxSlots>>

\* const cacheKey = `${floorSize}-${maxSlots}`
cacheKey(floorSize, maxSlots) == <<floorSize, maxSlots>>

\* The static fields of FloatPattern.
FloatStatics ==
  [ basePositionsCache |-> basePositionsCache,
    maxSlotsGenerated |-> maxSlotsGenerated ]

\* generateDynamicBasePositions(maxSlots, floorSize): the statics after the
\* call and the array it returns.
generateDynamicBasePositions(st, maxSlots, floorSize) ==
  LET key == cacheKey(floorSize, maxSlots)
      generated == Max(maxSlots, MAX_PHOTOS)
      positions == [i \in 1..generated |-> BasePosition(i - 1, floorSize)]
      after ==
        IF key \notin DOMAIN st.basePositionsCache \/ maxSlots > st.maxSlotsGenerated
        THEN [ basePositionsCache |->
                 [k \in DOMAIN st.basePositionsCache \cup {key} |->
                    IF k = key THEN positions ELSE st.basePositionsCache[k]],
               maxSlotsGenerated |-> Max(st.maxSlotsGenerated, generated) ]
        ELSE st
  IN [statics |-> after, basePositions |-> after.basePositionsCache[key]]

\* FloatPattern.generatePositions(time).
FloatGenerate(st, s, time) ==
  LET totalPhotos == totalPhotosOf(s)
      floorSize == floorSizeOf(s)
      base == generateDynamicBasePositions(st, totalPhotos, floorSize)
  IN [ statics |-> base.statics,
       positions |-> [i \in 1..totalPhotos |->
                        [basePos |-> base.basePositions[i], slot |-> i - 1,
                         time |-> time]],
       rotations |-> [i \in 1..totalPhotos |->
                        [basePos |-> base.basePositions[i], slot |-> i - 1,
                         time |-> time]] ]

\* Math.ceil(Math.sqrt(n)) for a count n.
CeilSqrt(n) == CHOOSE k \in 0..n : k * k >= n /\ (k = 0 \/ (k - 1) * (k - 1) < n)

\* GridPattern.generatePositions(time) and WavePattern.generatePositions(time)
\* with an aspect ratio of 1: the column and the row of each slot.  With no
\* photo, columns is 0 and rows is Math.ceil(0 / 0), which is NaN and raises
\* nothing; the loop does not run.
GridGenerate(s, time) ==
  LET totalPhotos == totalPhotosOf(s)
      columns == CeilSqrt(totalPhotos)
      cell(i) == [col |-> i % columns, row |-> i \div columns, time |-> time]
  IN [ positions |-> [i \in 1..totalPhotos |-> cell(i - 1)],
       rotations |-> [i \in 1..totalPhotos |-> cell(i - 1)] ]

patternFrame == <<slotVars, storeVars, collageVars, envVars, settingsVars, insertCode>>

Frame(pattern, s, time, generated) ==
  [ pattern |-> pattern, settings |-> s, time |-> time,
    positions |-> generated.positions, rotations |-> generated.rotations ]

\* A frame of the Float pattern is computed.
FloatFrame ==
  /\ \E s \in RenderSettings : \E time \in Times :
       LET generated == FloatGenerate(FloatStatics, s, time)
       IN /\ basePositionsCache' = generated.statics.basePositionsCache
          /\ maxSlotsGenerated' = generated.statics.maxSlotsGenerated
          /\ lastFrame' = Frame("float", s, time, generated)
  /\ UNCHANGED patternFrame

\* A frame of the Grid pattern is computed.
GridFrame ==
  /\ \E s \in RenderSettings : \E time \in Times :
       lastFrame' = Frame("grid", s, time, GridGenerate(s, time))
  /\ UNCHANGED <<basePositionsCache, maxSlotsGenerated, patternFrame>>

\* A frame of the Wave pattern is computed.
WaveFrame ==
  /\ \E s \in RenderSettings : \E time \in Times :
       lastFrame' = Frame("wave", s, time, GridGenerate(s, time))
  /\ UNCHANGED <<basePositionsCache, maxSlotsGenerated, patternFrame>>

PatternInit == StoreInit

PatternNext ==
  \/ FloatFrame
  \/ GridFrame
  \/ WaveFrame

PatternSpec == PatternInit /\ [][PatternNext]_vars

(***************************************************************************)
(* Properties of the pattern generators.                                   *)
(***************************************************************************)
\* The array generateDynamicBasePositions builds for a key when nothing is
\* cached.
FreshBasePositions(key) ==
  generateDynamicBasePositions(
    [basePositionsCache |-> [k \in {} |-> <<>>], maxSlotsGenerated |-> 0],
    key[2], key[1]).basePositions

\* C25: whatever frames were computed before, with whatever photo counts and
\* floor sizes, every cached array of the Float pattern is the one a first
\* call for its floor size and slot count builds, the base position a Float
\* frame used for slot i is the one of i and the frame's floor size, and a
\* cache entry, once set, is neither removed nor changed.
C25_FloatBaseIsStable ==
  /\ [](/\ \A key \in DOMAIN basePositionsCache :
             basePositionsCache[key] = FreshBasePositions(key)
        /\ lastFrame.pattern = "float" =>
             \A i \in 1..Len(lastFrame.positions) :
                lastFrame.positions[i].basePos =
                  BasePosition(i - 1, floorSizeOf(lastFrame.settings)))
  /\ [][\A key \in DOMAIN basePositionsCache :
          /\ key \in DOMAIN basePositionsCache'
          /\ basePositionsCache'[key] = basePositionsCache[key]]_vars

\* A Float frame for one floor size was computed from the cache after
\* frames for the other floor size and for other photo counts.
C25_Witness ==
  /\ lastFrame.pattern = "float"
  /\ Len(lastFrame.positions) = 2
  /\ \E k1, k2, k3 \in DOMAIN basePositionsCache :
       /\ k1[1] # k2[1]
       /\ k1[1] = k3[1] /\ k1[2] # k3[2]
       /\ k1[1] = floorSizeOf(lastFrame.settings)

\* The capacity of a collage: the maximum number of photos displayed at a
\* time, from its settings.
Capacity(s) == s.photoCount

\* C26 as stated: a frame of the Grid, Float or Wave pattern holds exactly
\* min(configured photoCount, capacity, 500) positions and as many
\* rotations, never more than 500, and two empty lists when that count is 0.
C26_VisibleCount ==
  lastFrame.pattern \in {"grid", "float", "wave"} =>
    LET visibleCount ==
          Min(Min(photoCountOf(lastFrame.settings), Capacity(lastFrame.settings)),
              MAX_PHOTOS)
    IN /\ Len(lastFrame.positions) = visibleCount
       /\ Len(lastFrame.rotations) = visibleCount
       /\ visibleCount <= MAX_PHOTOS
       /\ visibleCount = 0 => lastFrame.positions = <<>> /\ lastFrame.rotations = <<>>

(***************************************************************************)
(* The viewer page opening a collage and staying on it, with a feed that   *)
(* reports SUBSCRIBED.  Every request is answered; the page's 10-second    *)
(* check keeps running while the store is not connected; the feed joins a  *)
(* channel that stays subscribed, and a channel that stays joined calls    *)
(* the status callback with SUBSCRIBED.                                    *)
(***************************************************************************)
\* The feed joins channel `name`; the report to the client is on its way.
FeedJoins(name) ==
  /\ name \in Subscribed(channels)
  /\ ~channels[name].joined
  /\ channels' = [channels EXCEPT ![name].joined = TRUE]
  /\ UNCHANGED <<statePhotos, lastRefreshTime, recheckTimers, currentCollage,
                 loading, error, realtimeChannel, isRealtimeConnected,
                 pollingInterval, intervals, view, tasks, lastResult, lifeFrame>>

\* Channel `name`, joined, calls the status callback with SUBSCRIBED.
FeedConfirms(name) ==
  /\ name \in Subscribed(channels)
  /\ channels[name].joined
  /\ SetEngine(onStatus(Engine, name, "SUBSCRIBED"))
  /\ lastResult' = Result("statusCallback", "", "connected", FALSE)
  /\ UNCHANGED <<statePhotos, lastRefreshTime, recheckTimers, currentCollage,
                 loading, error, view, tasks, lifeFrame>>

FeedAccepts == \E name \in ChannelNames : FeedJoins(name)

FeedReports == \E name \in ChannelNames : FeedConfirms(name)

ConnectNext ==
  \/ ViewerMounts
  \/ CollageAnswers
  \/ SettingsAnswers
  \/ OpenPhotosAnswers
  \/ ViewerResubscribes
  \/ FeedAccepts
  \/ FeedReports
  \/ ChannelDelivers
  \/ OtherClientDeletes
  \/ DelayedRecheckFires

ConnectSpec ==
  /\ LifeInit
  /\ [][ConnectNext]_vars
  /\ WF_vars(CollageAnswers)
  /\ WF_vars(SettingsAnswers)
  /\ WF_vars(OpenPhotosAnswers)
  /\ WF_vars(ViewerResubscribes)
  /\ \A name \in ChannelNames : WF_vars(FeedJoins(name)) /\ WF_vars(FeedConfirms(name))

\* The viewer shows a collage.
Opened == view.page = "viewer" /\ currentCollage # NoCollage

\* Connected, not polling, and the store's channel the only one subscribed.
Settled ==
  /\ isRealtimeConnected
  /\ PollingInactive(Engine)
  /\ realtimeChannel # 0
  /\ Subscribed(channels) = {realtimeChannel}

\* C29 as stated: once the viewer shows a collage, the engine eventually is,
\* and from then on stays, connected with polling inactive and one channel
\* subscribed.
C29_EventuallySettled == [](Opened => <>[]Settled)
================================================================
